---- MODULE Spec2Model ----
(***************************************************************************)
(* Local Meeting Notes Generator: the presentation layer (MainWindow), the *)
(* background workers (ProcessingWorker, TranscriptionOnlyWorker) and the  *)
(* collaborators they call (AudioTranscriber, ConfigManager,               *)
(* NoteGenerator), as one state machine.                                   *)
(*                                                                         *)
(* Granularity.  The foreground thread runs one slot or one click handler  *)
(* at a time, so each handler is one action; a modal dialog opened by a    *)
(* handler is answered inside that action.  A worker thread runs between   *)
(* its blocking calls: run() is three steps (up to the subprocess wait, up *)
(* to the HTTP request, up to the return of run).  A signal emitted by a   *)
(* worker is posted to the foreground thread's event queue, which is one   *)
(* FIFO for all senders.  The log widget is written and never read by the  *)
(* program: the log lines are kept where they are emitted (the signals)    *)
(* and the widget is no variable.                                          *)
(*                                                                         *)
(* Spec is the window with its threads; WorkerSpec is one worker thread    *)
(* run against every behaviour of the collaborators it calls; CallSpec is  *)
(* the transcriber and the note generator called directly, each call kept  *)
(* with what it was given and what it did; HelperSpec is the validation of *)
(* the configuration, the audio file filter and the naming of the output   *)
(* files; ScanSpec is the line scan that save_files runs to build the PDF  *)
(* copy, one loop iteration per step; BatchSpec is the window with two     *)
(* items in each combo, running batches while the user changes them.       *)
(***************************************************************************)
EXTENDS Integers, Sequences, FiniteSets, TLC

\* ------------------------------------------------------------------ bounds

\* Worker threads created while the window is open.
MaxWorkers == 2
\* Longest list of files picked in the "Select Multiple Files" dialog.
MaxBatch == 2

\* ------------------------------------------------------------------- paths

Path(d, s, e) == [dir |-> d, stem |-> s, ext |-> e]

\* Python's None where a path is expected (QComboBox.currentData() of an
\* empty combo, an unset selection).
NonePath == Path("<None>", "", "")

WhisperExe == Path(".", "Whisper", "exe")
WhisperDll == Path(".", "Whisper", "dll")
ModelBin == Path("input", "ggml-base", "bin")
PromptTxt == Path("input", "System_Prompt", "txt")
AudioA == Path("rec", "a", "mp3")
AudioB == Path("rec", "b", "WAV")
NotAudio == Path("rec", "x", "txt")

\* What the file dialogs can hand back.
DialogFiles == {AudioA, AudioB, NotAudio}

\* str.lower() on the extensions that occur.
Lower(s) ==
  CASE s = "WAV" -> "wav"
    [] s = "MP3" -> "mp3"
    [] s = "Mp3" -> "mp3"
    [] s = "M4A" -> "m4a"
    [] s = "FLAC" -> "flac"
    [] s = "Aac" -> "aac"
    [] s = "OGG" -> "ogg"
    [] s = "TXT" -> "txt"
    [] OTHER -> s

valid_extensions == {"mp3", "wav", "m4a", "flac", "aac", "ogg"}

\* validate_audio_file without lower() (line 64).
validate_audio_file_case_sensitive(filepath) == filepath.ext \in valid_extensions

validate_audio_file(filepath) == Lower(filepath.ext) \in valid_extensions

\* Path.with_suffix('.txt')
with_suffix_txt(p) == [p EXCEPT !.ext = "txt"]

\* ------------------------------------------------------------- exceptions

Exc(t, m, s) == [type |-> t, msg |-> m, site |-> s]
NoExc == Exc("none", <<>>, "")

\* The direct base class of each exception class that occurs
\* (requests.exceptions.RequestException derives from IOError = OSError).
BaseOf(t) ==
  CASE t = "FileNotFoundError" -> "OSError"
    [] t = "PermissionError" -> "OSError"
    [] t = "RequestException" -> "OSError"
    [] t = "ConnectionError" -> "RequestException"
    [] t = "Timeout" -> "RequestException"
    [] t = "HTTPError" -> "RequestException"
    [] t = "UnicodeDecodeError" -> "ValueError"
    [] t = "JSONDecodeError" -> "ValueError"
    [] t = "BaseException" -> "BaseException"
    [] t = "Exception" -> "BaseException"
    [] OTHER -> "Exception"

RECURSIVE IsInstance(_, _)
IsInstance(t, cls) ==
  IF t = cls THEN TRUE
  ELSE IF t = "BaseException" THEN FALSE
  ELSE IsInstance(BaseOf(t), cls)

\* ------------------------------------------------------------ ConfigManager

\* os.path.exists(p) for a path p; the callers model the TypeError it raises
\* for None.
exists(fs, p) == p \in fs

RECURSIVE SetToSeq(_)
SetToSeq(S) ==
  IF S = {} THEN <<>>
  ELSE LET x == CHOOSE y \in S : TRUE IN <<x>> \o SetToSeq(S \ {x})

\* glob.glob(os.path.join(input_dir, "*.<ext>"))
glob(fs, input_dir, ext) ==
  SetToSeq({p \in fs : p.dir = input_dir /\ p.ext = ext})

_find_model_file(fs, input_dir) ==
  LET models == glob(fs, input_dir, "bin")
  IN IF models # <<>> THEN models[1] ELSE NonePath

get_all_model_files(fs, input_dir) == glob(fs, input_dir, "bin")

_find_system_prompt_files(fs, input_dir) == glob(fs, input_dir, "txt")

\* AppConfig as ConfigManager.__init__ builds it.
AppConfig(fs) ==
  [input_dir |-> "input",
   output_dir |-> "output",
   main_exe_path |-> WhisperExe,
   whisper_dll_path |-> WhisperDll,
   model_path |-> _find_model_file(fs, "input"),
   system_prompt_paths |-> _find_system_prompt_files(fs, "input")]

\* validate without the check of the support library (lines 77-78).
validate_without_dll(fs, app_config) ==
  LET e1 == IF ~exists(fs, app_config.main_exe_path)
            THEN <<"ERROR: Whisper.exe not found">> ELSE <<>>
      e3 == IF app_config.model_path = NonePath
            THEN <<"ERROR: No .bin model file found">> ELSE <<>>
      e4 == IF app_config.system_prompt_paths = <<>>
            THEN <<"ERROR: No System_Prompt*.txt file found">> ELSE <<>>
      errors == e1 \o e3 \o e4
  IN IF errors # <<>>
     THEN errors \o <<"", "INFO: README", "INFO: models", "INFO: prompt">>
     ELSE errors

\* ConfigManager.validate: the four checks in order, then the guidance lines.
validate(fs, app_config) ==
  LET e1 == IF ~exists(fs, app_config.main_exe_path)
            THEN <<"ERROR: Whisper.exe not found">> ELSE <<>>
      e2 == IF ~exists(fs, app_config.whisper_dll_path)
            THEN <<"ERROR: Whisper.dll not found">> ELSE <<>>
      e3 == IF app_config.model_path = NonePath
            THEN <<"ERROR: No .bin model file found">> ELSE <<>>
      e4 == IF app_config.system_prompt_paths = <<>>
            THEN <<"ERROR: No System_Prompt*.txt file found">> ELSE <<>>
      errors == e1 \o e2 \o e3 \o e4
  IN IF errors # <<>>
     THEN errors \o <<"", "INFO: README", "INFO: models", "INFO: prompt">>
     ELSE errors

\* A get_system_prompt that yields an empty prompt where the source yields
\* None or raises.
get_system_prompt_blank(fs, file_path, read) ==
  IF file_path # NonePath /\ exists(fs, file_path) /\ read = "ok"
  THEN [exc |-> NoExc, value |-> file_path.stem]
  ELSE [exc |-> NoExc, value |-> ""]

\* ConfigManager.get_system_prompt(file_path); read is what opening and
\* reading the file does: "ok", "OSError" or "UnicodeDecodeError".
\* value = "<None>" stands for the returned None.
get_system_prompt(fs, file_path, read) ==
  IF file_path = NonePath
  THEN [exc |-> Exc("TypeError", <<"stat: path should be string, not NoneType">>,
                    "get_system_prompt"),
        value |-> "<None>"]
  ELSE IF ~exists(fs, file_path) THEN [exc |-> NoExc, value |-> "<None>"]
  ELSE IF read = "OSError" THEN [exc |-> NoExc, value |-> "<None>"]
  ELSE IF read = "UnicodeDecodeError"
  THEN [exc |-> Exc("UnicodeDecodeError", <<"'utf-8' codec can't decode">>,
                    "get_system_prompt"),
        value |-> "<None>"]
  ELSE [exc |-> NoExc, value |-> file_path.stem]

\* ---------------------------------------------------------- AudioTranscriber

\* AudioTranscriber.__init__: the exception it raises, NoExc when it returns.
AudioTranscriber_init(fs, main_exe_path, model_path) ==
  IF main_exe_path = NonePath
  THEN Exc("TypeError", <<"stat: path should be string, not NoneType">>,
           "AudioTranscriber.__init__")
  ELSE IF ~exists(fs, main_exe_path)
  THEN Exc("FileNotFoundError", <<"Whisper.exe not found at ", main_exe_path.stem>>,
           "AudioTranscriber.__init__")
  ELSE IF model_path = NonePath
  THEN Exc("TypeError", <<"stat: path should be string, not NoneType">>,
           "AudioTranscriber.__init__")
  ELSE IF ~exists(fs, model_path)
  THEN Exc("FileNotFoundError", <<"Model file not found at ", model_path.stem>>,
           "AudioTranscriber.__init__")
  ELSE NoExc

\* What the external process and the file system do during one transcribe
\* call: Popen/communicate ("ok", "OSError", "SubprocessError"), the exit
\* code and standard error, whether the process writes the sidecar file and
\* with what text, what reading it does ("ok", "OSError",
\* "UnicodeDecodeError") and what unlink does ("ok", "PermissionError").
ProcOk(text) ==
  [popen |-> "ok", returncode |-> 0, stderr |-> "", writes_sidecar |-> TRUE,
   text |-> text, read |-> "ok", unlink |-> "ok"]

\* Text of a file that was at the sidecar path before the process ran.
OldText(p) == "<old file>"

\* transcribe_try without the deletion of the output file (line 87).
transcribe_try_kept(fs, audio_file_path, proc) ==
  LET output_txt_file == with_suffix_txt(audio_file_path)
      fsRun == IF proc.popen = "ok" /\ proc.writes_sidecar
               THEN fs \cup {output_txt_file} ELSE fs
      text == IF proc.writes_sidecar THEN proc.text ELSE OldText(output_txt_file)
      r(e, v, f, rd, del) ==
        [exc |-> e, value |-> v, fs |-> f, spawned |-> TRUE, read |-> rd,
         deleted |-> del]
  IN
  IF proc.popen # "ok"
  THEN r(Exc(proc.popen, <<"spawn failed">>, "transcribe"), "", fsRun, FALSE, FALSE)
  ELSE IF proc.returncode # 0
  THEN r(Exc("TranscriptionError", <<"Error during transcription: ", proc.stderr>>,
             "transcribe"), "", fsRun, FALSE, FALSE)
  ELSE IF ~exists(fsRun, output_txt_file)
  THEN r(Exc("TranscriptionError",
             <<"Transcription output file not found: ", output_txt_file.stem>>,
             "transcribe"), "", fsRun, FALSE, FALSE)
  ELSE IF proc.read # "ok"
  THEN r(Exc(proc.read, <<"read failed">>, "transcribe"), "", fsRun, FALSE, FALSE)
  ELSE r(NoExc, text, fsRun, TRUE, FALSE)

\* transcribe_try without the test that the output file exists (lines 79-80):
\* opening the missing file raises FileNotFoundError.
transcribe_try_output_unchecked(fs, audio_file_path, proc) ==
  LET output_txt_file == with_suffix_txt(audio_file_path)
      fsRun == IF proc.popen = "ok" /\ proc.writes_sidecar
               THEN fs \cup {output_txt_file} ELSE fs
      text == IF proc.writes_sidecar THEN proc.text ELSE OldText(output_txt_file)
      r(e, v, f, rd, del) ==
        [exc |-> e, value |-> v, fs |-> f, spawned |-> TRUE, read |-> rd,
         deleted |-> del]
  IN
  IF proc.popen # "ok"
  THEN r(Exc(proc.popen, <<"spawn failed">>, "transcribe"), "", fsRun, FALSE, FALSE)
  ELSE IF proc.returncode # 0
  THEN r(Exc("TranscriptionError", <<"Error during transcription: ", proc.stderr>>,
             "transcribe"), "", fsRun, FALSE, FALSE)
  ELSE IF ~exists(fsRun, output_txt_file)
  THEN r(Exc("FileNotFoundError", <<"No such file or directory">>, "transcribe"), "",
         fsRun, FALSE, FALSE)
  ELSE IF proc.read # "ok"
  THEN r(Exc(proc.read, <<"read failed">>, "transcribe"), "", fsRun, FALSE, FALSE)
  ELSE IF proc.unlink # "ok"
  THEN r(Exc(proc.unlink, <<"unlink failed">>, "transcribe"), "", fsRun, TRUE, FALSE)
  ELSE r(NoExc, text, fsRun \ {output_txt_file}, TRUE, TRUE)

\* transcribe_try without the test of the exit code (lines 76-77).
transcribe_try_exit_unchecked(fs, audio_file_path, proc) ==
  LET output_txt_file == with_suffix_txt(audio_file_path)
      fsRun == IF proc.popen = "ok" /\ proc.writes_sidecar
               THEN fs \cup {output_txt_file} ELSE fs
      text == IF proc.writes_sidecar THEN proc.text ELSE OldText(output_txt_file)
      r(e, v, f, rd, del) ==
        [exc |-> e, value |-> v, fs |-> f, spawned |-> TRUE, read |-> rd,
         deleted |-> del]
  IN
  IF proc.popen # "ok"
  THEN r(Exc(proc.popen, <<"spawn failed">>, "transcribe"), "", fsRun, FALSE, FALSE)
  ELSE IF ~exists(fsRun, output_txt_file)
  THEN r(Exc("TranscriptionError",
             <<"Transcription output file not found: ", output_txt_file.stem>>,
             "transcribe"), "", fsRun, FALSE, FALSE)
  ELSE IF proc.read # "ok"
  THEN r(Exc(proc.read, <<"read failed">>, "transcribe"), "", fsRun, FALSE, FALSE)
  ELSE IF proc.unlink # "ok"
  THEN r(Exc(proc.unlink, <<"unlink failed">>, "transcribe"), "", fsRun, TRUE, FALSE)
  ELSE r(NoExc, text, fsRun \ {output_txt_file}, TRUE, TRUE)

\* The body of the try block of transcribe (lines 67-89): the exception it
\* ends with (NoExc: it returned value), and the file system it leaves.
transcribe_try(fs, audio_file_path, proc) ==
  LET output_txt_file == with_suffix_txt(audio_file_path)
      fsRun == IF proc.popen = "ok" /\ proc.writes_sidecar
               THEN fs \cup {output_txt_file} ELSE fs
      text == IF proc.writes_sidecar THEN proc.text ELSE OldText(output_txt_file)
      r(e, v, f, rd, del) ==
        [exc |-> e, value |-> v, fs |-> f, spawned |-> TRUE, read |-> rd,
         deleted |-> del]
  IN
  IF proc.popen # "ok"
  THEN r(Exc(proc.popen, <<"spawn failed">>, "transcribe"), "", fsRun, FALSE, FALSE)
  ELSE IF proc.returncode # 0
  THEN r(Exc("TranscriptionError", <<"Error during transcription: ", proc.stderr>>,
             "transcribe"), "", fsRun, FALSE, FALSE)
  ELSE IF ~exists(fsRun, output_txt_file)
  THEN r(Exc("TranscriptionError",
             <<"Transcription output file not found: ", output_txt_file.stem>>,
             "transcribe"), "", fsRun, FALSE, FALSE)
  ELSE IF proc.read # "ok"
  THEN r(Exc(proc.read, <<"read failed">>, "transcribe"), "", fsRun, FALSE, FALSE)
  ELSE IF proc.unlink # "ok"
  THEN r(Exc(proc.unlink, <<"unlink failed">>, "transcribe"), "", fsRun, TRUE, FALSE)
  ELSE r(NoExc, text, fsRun \ {output_txt_file}, TRUE, TRUE)

\* The except clauses of transcribe (lines 91-96), first match first.
transcribe_except(e) ==
  IF e = NoExc THEN e
  ELSE IF IsInstance(e.type, "SubprocessError")
  THEN Exc("TranscriptionError",
           <<"Subprocess error during transcription: ">> \o e.msg, e.site)
  ELSE IF IsInstance(e.type, "OSError")
  THEN Exc("TranscriptionError", <<"I/O error during transcription: ">> \o e.msg, e.site)
  ELSE IF IsInstance(e.type, "Exception")
  THEN Exc("TranscriptionError",
           <<"Unexpected error during transcription: ">> \o e.msg, e.site)
  ELSE e

\* AudioTranscriber.transcribe
transcribe(fs, audio_file_path, proc) ==
  IF audio_file_path = NonePath
  THEN [exc |-> Exc("TypeError", <<"stat: path should be string, not NoneType">>,
                    "transcribe"),
        value |-> "", fs |-> fs, spawned |-> FALSE, read |-> FALSE, deleted |-> FALSE]
  ELSE IF ~exists(fs, audio_file_path)
  THEN [exc |-> Exc("FileNotFoundError",
                    <<"Audio file not found at ", audio_file_path.stem>>, "transcribe"),
        value |-> "", fs |-> fs, spawned |-> FALSE, read |-> FALSE, deleted |-> FALSE]
  ELSE LET t == transcribe_try(fs, audio_file_path, proc)
       IN [t EXCEPT !.exc = transcribe_except(t.exc)]

\* ------------------------------------------------------------- NoteGenerator

\* One line of a response body: a JSON record (with or without the
\* "response" field), another JSON value, text that is no JSON, or blank.
JsonRecord(resp) == [k |-> "record", response |-> resp]
JsonArray == [k |-> "array", response |-> "<missing>"]
NotJson == [k |-> "invalid", response |-> "<missing>"]
Blank == [k |-> "blank", response |-> "<missing>"]

RECURSIVE lstrip(_)
lstrip(lines) ==
  IF lines # <<>> /\ Head(lines) = Blank THEN lstrip(Tail(lines)) ELSE lines

RECURSIVE rstrip(_)
rstrip(lines) ==
  IF lines # <<>> /\ lines[Len(lines)] = Blank
  THEN rstrip(SubSeq(lines, 1, Len(lines) - 1)) ELSE lines

\* response.text.strip().split('\n'): never the empty list.
strip_split(body) ==
  LET s == rstrip(lstrip(body)) IN IF s = <<>> THEN <<Blank>> ELSE s

\* What the HTTP exchange does: the exception session.post or
\* raise_for_status raises ("none" when neither does) and the body's lines.
Http(exc, body) == [exc |-> exc, body |-> body]

\* generate_notes_try parsing the first line of the body instead of the last.
generate_notes_try_first_line(http) ==
  LET lines == strip_split(http.body)
      final_response == lines[1]
  IN
  IF http.exc # "none"
  THEN [exc |-> Exc(http.exc, <<"request failed">>, "generate_notes"), value |-> ""]
  ELSE IF final_response.k \in {"invalid", "blank"}
  THEN [exc |-> Exc("JSONDecodeError", <<"Expecting value">>, "generate_notes"),
        value |-> ""]
  ELSE IF final_response.k # "record"
  THEN [exc |-> Exc("AttributeError", <<"object has no attribute 'get'">>,
                    "generate_notes"),
        value |-> ""]
  ELSE IF final_response.response = "<missing>"
  THEN [exc |-> NoExc, value |-> "No response from model."]
  ELSE [exc |-> NoExc, value |-> final_response.response]

\* The body of the try block of generate_notes (lines 87-106).
generate_notes_try(http) ==
  LET lines == strip_split(http.body)
      final_response == lines[Len(lines)]
  IN
  IF http.exc # "none"
  THEN [exc |-> Exc(http.exc, <<"request failed">>, "generate_notes"), value |-> ""]
  ELSE IF final_response.k \in {"invalid", "blank"}
  THEN [exc |-> Exc("JSONDecodeError", <<"Expecting value">>, "generate_notes"),
        value |-> ""]
  ELSE IF final_response.k # "record"
  THEN [exc |-> Exc("AttributeError", <<"object has no attribute 'get'">>,
                    "generate_notes"),
        value |-> ""]
  ELSE IF final_response.response = "<missing>"
  THEN [exc |-> NoExc, value |-> "No response from model."]
  ELSE [exc |-> NoExc, value |-> final_response.response]

\* The except clauses of generate_notes (lines 108-119), first match first.
generate_notes_except(e) ==
  IF e = NoExc THEN e
  ELSE IF IsInstance(e.type, "ConnectionError")
  THEN Exc("NoteGenerationError", <<"Cannot connect to Ollama. Is it running?">>, e.site)
  ELSE IF IsInstance(e.type, "Timeout")
  THEN Exc("NoteGenerationError", <<"Request to Ollama timed out.">>, e.site)
  ELSE IF IsInstance(e.type, "HTTPError")
  THEN Exc("NoteGenerationError", <<"HTTP error from Ollama API: ">> \o e.msg, e.site)
  ELSE IF IsInstance(e.type, "RequestException")
  THEN Exc("NoteGenerationError",
           <<"Request error during note generation: ">> \o e.msg, e.site)
  ELSE IF IsInstance(e.type, "JSONDecodeError") \/ IsInstance(e.type, "IndexError")
  THEN Exc("NoteGenerationError", <<"Error decoding Ollama response: ">> \o e.msg, e.site)
  ELSE IF IsInstance(e.type, "KeyError")
  THEN Exc("NoteGenerationError",
           <<"Missing expected key in Ollama response: ">> \o e.msg, e.site)
  ELSE e

\* NoteGenerator.generate_notes
generate_notes(http) ==
  LET g == generate_notes_try(http)
  IN [g EXCEPT !.exc = generate_notes_except(g.exc)]

\* -------------------------------------------------------------------- state

VARIABLES
  fs,                      \* the paths that exist on disk
  workers,                 \* the worker threads, by slot
  queue,                   \* the foreground thread's event queue of signals
  selected_audio_file,     \* MainWindow.selected_audio_file
  selected_batch_files,    \* MainWindow.selected_batch_files
  batch_processing_index,  \* MainWindow.batch_processing_index
  worker,                  \* MainWindow.worker: a slot, 0 for None
  make_notes_button,       \* enabled?
  select_audio_button,     \* enabled?
  ollama_model_combo,      \* enabled?
  system_prompt_combo,     \* enabled?
  progress_bar,            \* QProgressBar.value()
  config_errors,           \* check_dependencies found errors at start-up
  combo_data,              \* currentData()/currentText() of the three combos
  saved,                   \* what the last terminal result handled led to
  app,                     \* "running", or "aborted" (qFatal)
  call                     \* the last collaborator call made outside the worker
                           \* threads: what it was given and what it did

vars ==
  <<fs, workers, queue, selected_audio_file, selected_batch_files,
    batch_processing_index, worker, make_notes_button, select_audio_button,
    ollama_model_combo, system_prompt_combo, progress_bar, config_errors,
    combo_data, saved, app, call>>

windowVars ==
  <<selected_audio_file, selected_batch_files, batch_processing_index, worker,
    make_notes_button, select_audio_button, ollama_model_combo,
    system_prompt_combo, progress_bar, config_errors, combo_data, saved, app>>

uiVars == <<windowVars, call>>

Slots == 1..MaxWorkers

\* ------------------------------------------------------------------ signals

\* A log line: its fixed text, the exception text put into it, and the
\* traceback appended to it (the place that raised; "" for none).
Line(prefix, msg, tb) == [prefix |-> prefix, msg |-> msg, tb |-> tb]
NoLine == Line("", <<>>, "")

\* The dict a worker emits, or None (present = FALSE).
Result(notes, transcript) == [present |-> TRUE, notes |-> notes, transcript |-> transcript]
NoneResult == [present |-> FALSE, notes |-> "", transcript |-> ""]

Sig(w, name, value, line, result) ==
  [w |-> w, name |-> name, value |-> value, line |-> line, result |-> result]
log_emit(w, line) == Sig(w, "log", 0, line, NoneResult)
progress_emit(w, value) == Sig(w, "progress", value, NoLine, NoneResult)
finished_emit(w, result) == Sig(w, "finished", 0, NoLine, result)

\* ------------------------------------------------------------------ workers

FreeWorker ==
  [state |-> "Free", kind |-> "", selected_audio_file |-> NonePath,
   system_prompt_path |-> NonePath, ollama_model |-> "",
   selected_model_path |-> NonePath, transcript |-> "", notes |-> "",
   slot |-> "", calls |-> <<>>]

\* The worker thread's record: the attributes set by __init__, the locals
\* transcript and notes of run(), the slot connected to `finished`, the state
\* of the pipeline, and calls: the collaborators run() has called so far, in
\* order, with "raise" after a call that raised.
\*
\* ProcessingWorker.__init__ / TranscriptionOnlyWorker.__init__ followed by
\* the connect calls and start(): the thread exists and run() has not begun.
NewWorker(kind, audio, prompt, model, model_path, slot) ==
  [state |-> "Idle", kind |-> kind, selected_audio_file |-> audio,
   system_prompt_path |-> prompt, ollama_model |-> model,
   selected_model_path |-> model_path, transcript |-> "", notes |-> "",
   slot |-> slot, calls |-> <<>>]

\* A thread whose run() has not returned.
Running(wk) == wk.state \in {"Idle", "Transcribing", "GeneratingNotes"}

\* The except clauses of ProcessingWorker.run without the last one.
ProcessingWorker_except_typed(e) ==
  IF IsInstance(e.type, "FileNotFoundError")
  THEN [caught |-> TRUE, line |-> Line("File not found: ", e.msg, "")]
  ELSE IF IsInstance(e.type, "TranscriptionError")
  THEN [caught |-> TRUE, line |-> Line("Transcription error: ", e.msg, "")]
  ELSE IF IsInstance(e.type, "NoteGenerationError")
  THEN [caught |-> TRUE, line |-> Line("Note generation error: ", e.msg, "")]
  ELSE IF IsInstance(e.type, "ValueError")
  THEN [caught |-> TRUE, line |-> Line("Value error: ", e.msg, "")]
  ELSE [caught |-> FALSE, line |-> NoLine]

\* The except clauses of ProcessingWorker.run (lines 83-103), first match
\* first: the log line, or caught = FALSE when no clause matches.
ProcessingWorker_except(e) ==
  IF IsInstance(e.type, "FileNotFoundError")
  THEN [caught |-> TRUE, line |-> Line("File not found: ", e.msg, "")]
  ELSE IF IsInstance(e.type, "TranscriptionError")
  THEN [caught |-> TRUE, line |-> Line("Transcription error: ", e.msg, "")]
  ELSE IF IsInstance(e.type, "NoteGenerationError")
  THEN [caught |-> TRUE, line |-> Line("Note generation error: ", e.msg, "")]
  ELSE IF IsInstance(e.type, "ValueError")
  THEN [caught |-> TRUE, line |-> Line("Value error: ", e.msg, "")]
  ELSE IF IsInstance(e.type, "Exception")
  THEN [caught |-> TRUE, line |-> Line("An unexpected error occurred: ", e.msg, e.site)]
  ELSE [caught |-> FALSE, line |-> NoLine]

\* The except clauses of TranscriptionOnlyWorker.run (lines 64-76).
TranscriptionOnlyWorker_except(e) ==
  IF IsInstance(e.type, "FileNotFoundError")
  THEN [caught |-> TRUE, line |-> Line("File not found: ", e.msg, "")]
  ELSE IF IsInstance(e.type, "TranscriptionError")
  THEN [caught |-> TRUE, line |-> Line("Transcription error: ", e.msg, "")]
  ELSE IF IsInstance(e.type, "Exception")
  THEN [caught |-> TRUE, line |-> Line("An unexpected error occurred: ", e.msg, e.site)]
  ELSE [caught |-> FALSE, line |-> NoLine]

run_except(kind, e) ==
  IF kind = "ProcessingWorker" THEN ProcessingWorker_except(e)
  ELSE TranscriptionOnlyWorker_except(e)

\* A handling of e that logs it and emits no result.
run_raise_log_only(w, kind, e) ==
  [signals |-> <<log_emit(w, run_except(kind, e).line)>>, state |-> "Failed"]

\* What run() does once exception e has been raised in its try block: the
\* signals it emits and the state it ends in.
run_raise(w, kind, e) ==
  LET h == run_except(kind, e)
  IN IF h.caught
     THEN [signals |-> <<log_emit(w, h.line), finished_emit(w, NoneResult)>>,
           state |-> "Failed"]
     ELSE [signals |-> <<>>, state |-> "Escaped"]

\* run(), lines 50-54 (ProcessingWorker) and 44-48 (TranscriptionOnlyWorker).
run_begin(w, kind) ==
  IF kind = "ProcessingWorker"
  THEN <<log_emit(w, Line("Starting meeting notes generation...", <<>>, "")),
         log_emit(w, Line("Transcribing audio...", <<>>, "")),
         progress_emit(w, 10)>>
  ELSE <<log_emit(w, Line("Starting audio transcription...", <<>>, "")),
         log_emit(w, Line("Transcribing audio...", <<>>, "")),
         progress_emit(w, 20)>>

\* A run() that goes on to the note generation whatever the transcription did.
run_transcribe_unguarded(w, self, files, proc) ==
  LET init == AudioTranscriber_init(files, AppConfig(files).main_exe_path,
                                    self.selected_model_path)
      t == transcribe(files, self.selected_audio_file, proc)
      ok == init = NoExc /\ t.exc = NoExc
  IN [state |-> IF self.kind = "ProcessingWorker" THEN "GeneratingNotes" ELSE "Completed",
      signals |-> IF self.kind = "ProcessingWorker"
                  THEN <<log_emit(w, Line("Transcription complete.", <<>>, "")),
                         progress_emit(w, 50),
                         log_emit(w, Line("Generating notes...", <<>>, ""))>>
                  ELSE <<log_emit(w, Line("Transcription complete.", <<>>, "")),
                         progress_emit(w, 90),
                         finished_emit(w, Result("<no key>", t.value))>>,
      transcript |-> IF ok THEN t.value ELSE "",
      calls |-> IF ok THEN <<"AudioTranscriber", "transcribe">>
                ELSE <<"AudioTranscriber", "raise">>,
      fs |-> IF init # NoExc THEN files ELSE t.fs]

\* run(), lines 56-65 (ProcessingWorker) and 50-62 (TranscriptionOnlyWorker):
\* the transcriber is built, transcribe is called; then either the next
\* signals are emitted or the exception is handled.
run_transcribe(w, self, files, proc) ==
  LET init == AudioTranscriber_init(files, AppConfig(files).main_exe_path,
                                    self.selected_model_path)
      t == transcribe(files, self.selected_audio_file, proc)
      e == IF init # NoExc THEN init ELSE t.exc
      calls == IF init # NoExc THEN <<"AudioTranscriber", "raise">>
               ELSE IF t.exc # NoExc THEN <<"AudioTranscriber", "transcribe", "raise">>
               ELSE <<"AudioTranscriber", "transcribe">>
      files2 == IF init # NoExc THEN files ELSE t.fs
      failed == run_raise(w, self.kind, e)
  IN
  IF e # NoExc
  THEN [state |-> failed.state, signals |-> failed.signals, transcript |-> "",
        calls |-> calls, fs |-> files2]
  ELSE IF self.kind = "ProcessingWorker"
  THEN [state |-> "GeneratingNotes",
        signals |-> <<log_emit(w, Line("Transcription complete.", <<>>, "")),
                      progress_emit(w, 50),
                      log_emit(w, Line("Generating notes...", <<>>, ""))>>,
        transcript |-> t.value, calls |-> calls, fs |-> files2]
  ELSE [state |-> "Completed",
        signals |-> <<log_emit(w, Line("Transcription complete.", <<>>, "")),
                      progress_emit(w, 90),
                      finished_emit(w, Result("<no key>", t.value))>>,
        transcript |-> t.value, calls |-> calls, fs |-> files2]

\* ProcessingWorker.run(), lines 66-81: the prompt is read, generate_notes is
\* called, the result is emitted; or the exception is handled.
run_generate(w, self, files, read, http) ==
  LET p == get_system_prompt(files, self.system_prompt_path, read)
      g == generate_notes(http)
      e == IF p.exc # NoExc THEN p.exc
           ELSE IF p.value = "<None>"
           THEN Exc("ValueError",
                    <<"Could not load system prompt from ", self.system_prompt_path.stem>>,
                    "run")
           ELSE g.exc
      calls == IF p.exc # NoExc \/ p.value = "<None>"
               THEN <<"get_system_prompt", "raise">>
               ELSE IF g.exc # NoExc
               THEN <<"get_system_prompt", "generate_notes", "raise">>
               ELSE <<"get_system_prompt", "generate_notes">>
      failed == run_raise(w, self.kind, e)
  IN
  IF e # NoExc
  THEN [state |-> failed.state, signals |-> failed.signals, notes |-> "",
        calls |-> calls]
  ELSE [state |-> "Completed",
        signals |-> <<log_emit(w, Line("Note generation complete.", <<>>, "")),
                      progress_emit(w, 90),
                      finished_emit(w, Result(g.value, self.transcript))>>,
        notes |-> g.value, calls |-> calls]

\* The thread starts executing run().
WorkerBegin(w) ==
  /\ app = "running"
  /\ workers[w].state = "Idle"
  /\ workers' = [workers EXCEPT ![w].state = "Transcribing"]
  /\ queue' = queue \o run_begin(w, workers[w].kind)
  /\ UNCHANGED <<fs, uiVars>>

\* The thread comes back from the transcription (or fails in it).
WorkerTranscribe(w, proc) ==
  /\ app = "running"
  /\ workers[w].state = "Transcribing"
  /\ LET r == run_transcribe(w, workers[w], fs, proc)
     IN /\ workers' = [workers EXCEPT ![w].state = r.state,
                                      ![w].transcript = r.transcript,
                                      ![w].calls = @ \o r.calls]
        /\ queue' = queue \o r.signals
        /\ fs' = r.fs
  /\ UNCHANGED uiVars

\* The thread comes back from the note generation (or fails in it).
WorkerGenerate(w, read, http) ==
  /\ app = "running"
  /\ workers[w].state = "GeneratingNotes"
  /\ LET r == run_generate(w, workers[w], fs, read, http)
     IN /\ workers' = [workers EXCEPT ![w].state = r.state,
                                      ![w].notes = r.notes,
                                      ![w].calls = @ \o r.calls]
        /\ queue' = queue \o r.signals
  /\ UNCHANGED <<fs, uiVars>>

\* --------------------------------------------------------------- MainWindow

\* What GET /api/tags does: the exception session.get or raise_for_status
\* raises ("none" when neither does) and the entries under "models" of the
\* body, each by its name; <<"<missing>">> is a body without the "models"
\* field and "<no name>" an entry without the "name" field.
Tags(exc, models) == [exc |-> exc, models |-> models]

\* The body of the try block of get_available_models (lines 55-64): the
\* exception it ends with (NoExc: it returned models).
get_available_models_try(tags) ==
  IF tags.exc # "none"
  THEN [exc |-> Exc(tags.exc, <<"request failed">>, "get_available_models"),
        models |-> <<>>]
  ELSE IF tags.models = <<"<missing>">>
  THEN [exc |-> Exc("NoteGenerationError", <<"Invalid response format from Ollama API">>,
                    "get_available_models"),
        models |-> <<>>]
  ELSE IF \E i \in 1..Len(tags.models) : tags.models[i] = "<no name>"
  THEN [exc |-> Exc("KeyError", <<"'name'">>, "get_available_models"), models |-> <<>>]
  ELSE [exc |-> NoExc, models |-> tags.models]

\* get_available_models_except without the clause for parsing failures
\* (lines 72-73).
get_available_models_except_unparsed(e) ==
  IF e = NoExc THEN e
  ELSE IF IsInstance(e.type, "ConnectionError")
  THEN Exc("NoteGenerationError", <<"ERROR: Cannot connect to Ollama.">>, e.site)
  ELSE IF IsInstance(e.type, "HTTPError")
  THEN Exc("NoteGenerationError", <<"ERROR: HTTP error from Ollama API: ">> \o e.msg,
           e.site)
  ELSE IF IsInstance(e.type, "RequestException")
  THEN Exc("NoteGenerationError",
           <<"ERROR: Request error when getting Ollama models: ">> \o e.msg, e.site)
  ELSE e

\* The except clauses of get_available_models (lines 66-73), first match
\* first; the NoteGenerationError of the try block matches none of them.
get_available_models_except(e) ==
  IF e = NoExc THEN e
  ELSE IF IsInstance(e.type, "ConnectionError")
  THEN Exc("NoteGenerationError", <<"ERROR: Cannot connect to Ollama.">>, e.site)
  ELSE IF IsInstance(e.type, "HTTPError")
  THEN Exc("NoteGenerationError", <<"ERROR: HTTP error from Ollama API: ">> \o e.msg,
           e.site)
  ELSE IF IsInstance(e.type, "RequestException")
  THEN Exc("NoteGenerationError",
           <<"ERROR: Request error when getting Ollama models: ">> \o e.msg, e.site)
  ELSE IF \/ IsInstance(e.type, "KeyError") \/ IsInstance(e.type, "TypeError")
          \/ IsInstance(e.type, "JSONDecodeError")
  THEN Exc("NoteGenerationError", <<"ERROR: Error parsing Ollama response: ">> \o e.msg,
           e.site)
  ELSE e

\* NoteGenerator.get_available_models: the exception it raises (NoExc when
\* none) and the names it returns.
get_available_models(tags) ==
  LET g == get_available_models_try(tags)
  IN [g EXCEPT !.exc = get_available_models_except(g.exc)]

\* A call of a collaborator made by the thread that runs the window (the
\* main thread): the function, the file system it found, what it was given
\* (its arguments and what the outside world did during the call) and what
\* it did (the exception it raised or the value it returned).
Call(fn, before, input, output) ==
  [fn |-> fn, thread |-> "MainThread", before |-> before, input |-> input,
   output |-> output]

\* The window and what its handlers change, as one record: the attributes
\* of MainWindow, the threads, `raised` for an exception that leaves the
\* handler, and `beyond` for a handler that needs more than MaxWorkers
\* threads.
Self ==
  [selected_audio_file |-> selected_audio_file,
   selected_batch_files |-> selected_batch_files,
   batch_processing_index |-> batch_processing_index,
   worker |-> worker,
   make_notes_button |-> make_notes_button,
   select_audio_button |-> select_audio_button,
   ollama_model_combo |-> ollama_model_combo,
   system_prompt_combo |-> system_prompt_combo,
   progress_bar |-> progress_bar,
   config_errors |-> config_errors,
   combo_data |-> combo_data,
   saved |-> saved,
   app |-> app,
   call |-> call,
   workers |-> workers,
   raised |-> FALSE,
   beyond |-> FALSE]

\* The result of a handler becomes the next state.  An exception that
\* leaves a slot is fatal (PyQt5 from 5.5 on calls qFatal) or is printed and
\* dropped (earlier PyQt5, or an excepthook): fatal says which.
Becomes(m, fatal) ==
  /\ ~m.beyond
  /\ selected_audio_file' = m.selected_audio_file
  /\ selected_batch_files' = m.selected_batch_files
  /\ batch_processing_index' = m.batch_processing_index
  /\ worker' = m.worker
  /\ make_notes_button' = m.make_notes_button
  /\ select_audio_button' = m.select_audio_button
  /\ ollama_model_combo' = m.ollama_model_combo
  /\ system_prompt_combo' = m.system_prompt_combo
  /\ progress_bar' = m.progress_bar
  /\ config_errors' = m.config_errors
  /\ combo_data' = m.combo_data
  /\ saved' = m.saved
  /\ call' = m.call
  /\ workers' = m.workers
  /\ app' = IF m.raised /\ fatal THEN "aborted" ELSE m.app

NoSave ==
  [job |-> NonePath, handler |-> "", present |-> FALSE, path |-> NonePath,
   attempted |-> {}, written |-> {}, reported |-> {}, raised |-> FALSE]

\* MainWindow.__init__: setup_ui, then check_dependencies (lines 242-298).
check_dependencies(files, tags) ==
  LET app_config == AppConfig(files)
      errors0 == validate(files, app_config)
      got == get_available_models(tags)
      errors == IF got.exc # NoExc THEN errors0 \o <<got.exc.msg[1]>>
                ELSE IF got.models = <<>> THEN errors0 \o <<"ERROR: No Ollama models found.">>
                ELSE errors0
      model_files == get_all_model_files(files, app_config.input_dir)
  IN
  [selected_audio_file |-> NonePath,
   selected_batch_files |-> <<>>,
   batch_processing_index |-> 0,
   worker |-> 0,
   make_notes_button |-> FALSE,
   select_audio_button |-> TRUE,
   ollama_model_combo |-> TRUE,
   system_prompt_combo |-> TRUE,
   progress_bar |-> -1,
   config_errors |-> errors # <<>>,
   combo_data |-> IF errors # <<>>
                  THEN [system_prompt |-> NonePath, ollama_model |-> "",
                        model_bin |-> NonePath]
                  ELSE [system_prompt |-> app_config.system_prompt_paths[1],
                        ollama_model |-> got.models[1],
                        model_bin |-> model_files[1]],
   saved |-> NoSave,
   app |-> "running",
   call |-> Call("get_available_models", files, tags, got),
   workers |-> [w \in Slots |-> FreeWorker],
   raised |-> FALSE,
   beyond |-> FALSE]

\* select_audio_file (lines 300-323), the dialog returning file_name.
select_audio_file(m, file_name) ==
  IF ~validate_audio_file(file_name) THEN m
  ELSE [m EXCEPT !.selected_audio_file = file_name,
                 !.selected_batch_files = <<>>,
                 !.make_notes_button = TRUE]

\* select_batch_files (lines 325-358), the dialog returning file_names.
select_batch_files(m, file_names) ==
  LET valid_files == SelectSeq(file_names, validate_audio_file)
  IN IF valid_files # <<>>
     THEN [m EXCEPT !.selected_batch_files = valid_files,
                    !.selected_audio_file = NonePath,
                    !.make_notes_button = TRUE]
     ELSE [m EXCEPT !.make_notes_button = FALSE]

HasFreeSlot(wks) == \E w \in Slots : wks[w].state = "Free"

FreeSlot(wks) ==
  CHOOSE w \in Slots :
    /\ wks[w].state = "Free"
    /\ \A v \in Slots : v < w => wks[v].state # "Free"

\* self.worker = ProcessingWorker(...), the three connect calls and start()
\* (lines 410-420, 476-487).  Rebinding self.worker drops the last reference
\* to the previous QThread object; when its thread is still running, Qt
\* documents a crash and the binding may also keep the thread alive:
\* destroyed says which.
start_worker(m, audio, slot, destroyed) ==
  LET w == FreeSlot(m.workers)
  IN IF ~HasFreeSlot(m.workers) THEN [m EXCEPT !.beyond = TRUE]
     ELSE IF m.worker # 0 /\ Running(m.workers[m.worker]) /\ destroyed
     THEN [m EXCEPT !.app = "aborted"]
     ELSE [m EXCEPT !.worker = w,
                    !.workers[w] = NewWorker("ProcessingWorker", audio,
                                             m.combo_data.system_prompt,
                                             m.combo_data.ollama_model,
                                             m.combo_data.model_bin, slot)]

\* process_single_file (lines 377-420) after the dialog was answered Yes.
process_single_file(m, destroyed) ==
  start_worker([m EXCEPT !.make_notes_button = FALSE,
                         !.select_audio_button = FALSE,
                         !.ollama_model_combo = FALSE,
                         !.system_prompt_combo = FALSE,
                         !.progress_bar = 0],
               m.selected_audio_file, "generation_finished", destroyed)

\* process_next_batch_file (lines 452-487); the list is indexed from 0.
process_next_batch_file(m, destroyed) ==
  IF m.batch_processing_index >= Len(m.selected_batch_files)
  THEN [m EXCEPT !.make_notes_button = TRUE,
                 !.select_audio_button = TRUE,
                 !.ollama_model_combo = TRUE,
                 !.system_prompt_combo = TRUE]
  ELSE LET current_file == m.selected_batch_files[m.batch_processing_index + 1]
       IN start_worker(m, current_file, "batch_generation_finished", destroyed)

\* process_batch_files (lines 422-450) after the dialog was answered Yes.
process_batch_files(m, destroyed) ==
  IF m.selected_batch_files = <<>> THEN m
  ELSE process_next_batch_file([m EXCEPT !.make_notes_button = FALSE,
                                         !.select_audio_button = FALSE,
                                         !.ollama_model_combo = FALSE,
                                         !.system_prompt_combo = FALSE,
                                         !.progress_bar = 0,
                                         !.batch_processing_index = 0],
                               destroyed)

\* generate_notes (lines 360-375): the click on "Generate Meeting Notes";
\* yes is the answer to the confirmation dialog.
generate_notes_clicked(m, yes, destroyed) ==
  IF m.selected_audio_file # NonePath
  THEN IF yes THEN process_single_file(m, destroyed) ELSE m
  ELSE IF m.selected_batch_files # <<>>
  THEN IF yes THEN process_batch_files(m, destroyed) ELSE m
  ELSE m

\* The three targets of save_files, in the order they are written.
Targets == <<"transcript.txt", "notes.md", "notes.pdf">>

\* The writes of save_files (lines 570-819): target i is attempted when
\* every earlier one succeeded; io says which writes succeed when attempted.
RECURSIVE write_from(_, _, _)
write_from(i, io, sv) ==
  IF i > Len(Targets) THEN sv
  ELSE LET t == Targets[i]
           tried == [sv EXCEPT !.attempted = @ \cup {t}]
       IN IF io[t]
          THEN write_from(i + 1, io, [tried EXCEPT !.written = @ \cup {t}])
          ELSE [tried EXCEPT !.reported = @ \cup {t}]

\* save_files (lines 536-833).
save_files(m, notes, transcript, audio_file_path, io) ==
  LET fallback == m.selected_batch_files # <<>> /\ m.batch_processing_index > 0
      file_path ==
        IF audio_file_path # NonePath THEN audio_file_path
        ELSE IF m.selected_audio_file # NonePath THEN m.selected_audio_file
        ELSE IF fallback /\ m.batch_processing_index <= Len(m.selected_batch_files)
        THEN m.selected_batch_files[m.batch_processing_index]
        ELSE NonePath
      sv == write_from(1, io, [m.saved EXCEPT !.path = file_path])
  IN
  IF audio_file_path = NonePath /\ m.selected_audio_file = NonePath /\ fallback
     /\ m.batch_processing_index > Len(m.selected_batch_files)
  THEN [m EXCEPT !.raised = TRUE, !.saved.raised = TRUE]
  ELSE IF file_path = NonePath THEN m
  ELSE [m EXCEPT !.saved = sv]

\* The record of a terminal result arriving from thread w.
Arrived(m, w, handler, result) ==
  [NoSave EXCEPT !.job = m.workers[w].selected_audio_file,
                 !.handler = handler,
                 !.present = result.present]

\* generation_finished without the test of the result (line 524).
generation_finished_saving_always(m, w, result, io) ==
  LET m1 == [m EXCEPT !.progress_bar = 100,
                      !.make_notes_button = TRUE,
                      !.select_audio_button = TRUE,
                      !.ollama_model_combo = TRUE,
                      !.system_prompt_combo = TRUE,
                      !.saved = Arrived(m, w, "generation_finished", result)]
  IN save_files(m1, result.notes, result.transcript, m1.selected_audio_file, io)

\* generation_finished (lines 514-534), connected to thread w.
generation_finished(m, w, result, io) ==
  LET m1 == [m EXCEPT !.progress_bar = 100,
                      !.make_notes_button = TRUE,
                      !.select_audio_button = TRUE,
                      !.ollama_model_combo = TRUE,
                      !.system_prompt_combo = TRUE,
                      !.saved = Arrived(m, w, "generation_finished", result)]
  IN IF result.present
     THEN save_files(m1, result.notes, result.transcript, m1.selected_audio_file, io)
     ELSE m1

\* batch_generation_finished (lines 489-504), connected to thread w.
batch_generation_finished(m, w, result, io, destroyed) ==
  LET m1 == [m EXCEPT !.progress_bar = 100,
                      !.saved = Arrived(m, w, "batch_generation_finished", result)]
      in_range == m1.batch_processing_index < Len(m1.selected_batch_files)
      current_file_path == m1.selected_batch_files[m1.batch_processing_index + 1]
      m2 == IF result.present
            THEN save_files(m1, result.notes, result.transcript, current_file_path, io)
            ELSE [m1 EXCEPT !.saved.path = current_file_path]
  IN IF ~in_range THEN [m1 EXCEPT !.raised = TRUE, !.saved.raised = TRUE]
     ELSE IF m2.raised THEN m2
     ELSE process_next_batch_file(
            [m2 EXCEPT !.batch_processing_index = @ + 1], destroyed)

\* -------------------------------------------------------------- environment

AllFiles == {WhisperExe, WhisperDll, ModelBin, PromptTxt, AudioA, AudioB, NotAudio}

TagsOk == Tags("none", <<"llama2">>)

\* The start-up situations of the window: everything in place, or the
\* generation service not running.
StartWorlds ==
  {[fs |-> AllFiles, tags |-> TagsOk],
   [fs |-> AllFiles, tags |-> Tags("ConnectionError", <<>>)]}

Texts == {"t1", "t2"}
NotesTexts == {"n1", "n2"}

\* Every behaviour of the transcription process and of the sidecar file.
Procs ==
  [popen : {"ok", "OSError", "SubprocessError"}, returncode : {0, 1},
   stderr : {"stderr text"}, writes_sidecar : BOOLEAN, text : Texts,
   read : {"ok", "OSError", "UnicodeDecodeError"}, unlink : {"ok", "PermissionError"}]

\* The ones the window is run against: a transcript, or a failed process.
UiProcs ==
  {ProcOk("t1"), [ProcOk("t1") EXCEPT !.returncode = 1, !.stderr = "stderr text"]}

Reads == {"ok", "OSError", "UnicodeDecodeError"}

BodyLines ==
  {JsonRecord(n) : n \in NotesTexts \cup {"<missing>"}} \cup {JsonArray, NotJson, Blank}

Bodies == {<<>>} \cup {<<l>> : l \in BodyLines} \cup {<<k, l>> : k, l \in BodyLines}

\* Every behaviour of the generation service.
Https ==
  {Http(e, <<>>) : e \in {"ConnectionError", "Timeout", "HTTPError", "RequestException"}}
  \cup {Http("none", b) : b \in Bodies}

\* The ones the window is run against: notes, or no service.
UiHttps == {Http("none", <<JsonRecord("n1")>>), Http("ConnectionError", <<>>)}

\* Which of the three writes of save_files succeed when attempted.
IoOutcomes == [{"transcript.txt", "notes.md", "notes.pdf"} -> BOOLEAN]

\* The lists of at most n distinct files of S, in every order.
RECURSIVE SeqsUpTo(_, _)
SeqsUpTo(S, n) ==
  IF n = 0 THEN {<<>>}
  ELSE LET shorter == SeqsUpTo(S, n - 1)
       IN shorter \cup UNION {{Append(q, x) : x \in {y \in S : \A i \in 1..Len(q) : q[i] # y}}
                               : q \in shorter}

\* What the "Select Multiple Files" dialog can return when it is accepted.
BatchChoices == SeqsUpTo(DialogFiles, MaxBatch) \ {<<>>}

\* ------------------------------------------------------------------ actions

TypeOK ==
  /\ app \in {"running", "aborted"}
  /\ worker \in 0..MaxWorkers
  /\ batch_processing_index \in Nat

Init ==
  \E world \in StartWorlds :
    LET m == check_dependencies(world.fs, world.tags)
    IN /\ fs = world.fs
       /\ queue = <<>>
       /\ selected_audio_file = m.selected_audio_file
       /\ selected_batch_files = m.selected_batch_files
       /\ batch_processing_index = m.batch_processing_index
       /\ worker = m.worker
       /\ make_notes_button = m.make_notes_button
       /\ select_audio_button = m.select_audio_button
       /\ ollama_model_combo = m.ollama_model_combo
       /\ system_prompt_combo = m.system_prompt_combo
       /\ progress_bar = m.progress_bar
       /\ config_errors = m.config_errors
       /\ combo_data = m.combo_data
       /\ saved = m.saved
       /\ app = m.app
       /\ call = m.call
       /\ workers = m.workers

\* The user picks a file with "Select Audio File".
SelectAudioFile(file_name) ==
  /\ app = "running"
  /\ select_audio_button
  /\ Becomes(select_audio_file(Self, file_name), FALSE)
  /\ UNCHANGED <<fs, queue>>

\* The user picks files with "Select Multiple Files" (never disabled).
SelectBatchFiles(file_names) ==
  /\ app = "running"
  /\ Becomes(select_batch_files(Self, file_names), FALSE)
  /\ UNCHANGED <<fs, queue>>

\* The user clicks "Generate Meeting Notes" and answers the dialog.
GenerateNotes(yes, destroyed) ==
  /\ app = "running"
  /\ make_notes_button
  /\ destroyed => worker # 0 /\ Running(workers[worker])
  /\ Becomes(generate_notes_clicked(Self, yes, destroyed), FALSE)
  /\ UNCHANGED <<fs, queue>>

\* update_progress (lines 506-508) runs for the signal at the head.
UpdateProgress ==
  /\ app = "running"
  /\ queue # <<>>
  /\ Head(queue).name = "progress"
  /\ Becomes([Self EXCEPT !.progress_bar = Head(queue).value], FALSE)
  /\ queue' = Tail(queue)
  /\ UNCHANGED fs

\* update_log (lines 510-512) runs for the signal at the head: the line goes
\* to the log widget, which the program writes and never reads.
UpdateLog ==
  /\ app = "running"
  /\ queue # <<>>
  /\ Head(queue).name = "log"
  /\ queue' = Tail(queue)
  /\ UNCHANGED <<fs, workers, uiVars>>

\* generation_finished runs for the signal at the head.
GenerationFinished(io, fatal) ==
  /\ app = "running"
  /\ queue # <<>>
  /\ Head(queue).name = "finished"
  /\ workers[Head(queue).w].slot = "generation_finished"
  /\ Becomes(generation_finished(Self, Head(queue).w, Head(queue).result, io), fatal)
  /\ queue' = Tail(queue)
  /\ UNCHANGED fs

\* batch_generation_finished runs for the signal at the head.
BatchGenerationFinished(io, destroyed, fatal) ==
  /\ app = "running"
  /\ queue # <<>>
  /\ Head(queue).name = "finished"
  /\ workers[Head(queue).w].slot = "batch_generation_finished"
  /\ destroyed => /\ worker # 0
                  /\ worker # Head(queue).w
                  /\ Running(workers[worker])
  /\ Becomes(batch_generation_finished(Self, Head(queue).w, Head(queue).result,
                                       io, destroyed), fatal)
  /\ queue' = Tail(queue)
  /\ UNCHANGED fs

Next ==
  \/ \E f \in DialogFiles : SelectAudioFile(f)
  \/ \E fl \in BatchChoices : SelectBatchFiles(fl)
  \/ \E yes \in BOOLEAN, destroyed \in BOOLEAN : GenerateNotes(yes, destroyed)
  \/ UpdateProgress
  \/ UpdateLog
  \/ \E io \in IoOutcomes, fatal \in BOOLEAN : GenerationFinished(io, fatal)
  \/ \E io \in IoOutcomes, destroyed \in BOOLEAN, fatal \in BOOLEAN :
       BatchGenerationFinished(io, destroyed, fatal)
  \/ \E w \in Slots : WorkerBegin(w)
  \/ \E w \in Slots, proc \in UiProcs : WorkerTranscribe(w, proc)
  \/ \E w \in Slots, http \in UiHttps : WorkerGenerate(w, "ok", http)

\* The window and its worker threads.
Spec == Init /\ [][Next]_vars

\* The next step of worker thread w, whatever its blocking call returns.
WorkerStep(w) ==
  \/ WorkerBegin(w)
  \/ \E proc \in UiProcs : WorkerTranscribe(w, proc)
  \/ \E http \in UiHttps : WorkerGenerate(w, "ok", http)

\* --------------------------------------------------- one worker on its own

Kinds == {"ProcessingWorker", "TranscriptionOnlyWorker"}

\* The files in place when a worker runs: any of the four it needs missing.
WorkerWorlds == {AllFiles \ gone : gone \in SUBSET {WhisperExe, ModelBin, PromptTxt, AudioA}}

\* A worker constructed with arguments of the types its __init__ accepts
\* (a path or None) and started; nobody consumes its signals.
WorkerInit ==
  \E files \in WorkerWorlds, kind \in Kinds, audio \in {AudioA, NonePath},
     prompt \in {PromptTxt, NonePath}, model_path \in {ModelBin, NonePath} :
    LET m == check_dependencies(AllFiles, TagsOk)
    IN /\ kind = "TranscriptionOnlyWorker" => prompt = NonePath
       /\ fs = files
       /\ queue = <<>>
       /\ selected_audio_file = m.selected_audio_file
       /\ selected_batch_files = m.selected_batch_files
       /\ batch_processing_index = m.batch_processing_index
       /\ worker = m.worker
       /\ make_notes_button = m.make_notes_button
       /\ select_audio_button = m.select_audio_button
       /\ ollama_model_combo = m.ollama_model_combo
       /\ system_prompt_combo = m.system_prompt_combo
       /\ progress_bar = m.progress_bar
       /\ config_errors = m.config_errors
       /\ combo_data = m.combo_data
       /\ saved = m.saved
       /\ app = m.app
       /\ call = m.call
       /\ workers = [m.workers EXCEPT ![1] = NewWorker(kind, audio, prompt, "llama2",
                                                       model_path, "")]

WorkerNext ==
  \/ \E w \in Slots : WorkerBegin(w)
  \/ \E w \in Slots, proc \in Procs : WorkerTranscribe(w, proc)
  \/ \E w \in Slots, read \in Reads, http \in Https : WorkerGenerate(w, read, http)

\* A worker thread against every behaviour of its collaborators.
WorkerSpec == WorkerInit /\ [][WorkerNext]_vars

\* ------------------------------------------- the collaborators on their own

\* The files in place when a collaborator is called: any of the three the
\* transcriber checks missing, and possibly a file already at the sidecar
\* path of the audio file.
CallWorlds ==
  {(AllFiles \ gone) \cup old :
     gone \in SUBSET {WhisperExe, ModelBin, AudioA},
     old \in {{}, {with_suffix_txt(AudioA)}}}

\* What GET /api/tags can do.
TagsAll ==
  {Tags(exc, <<>>) : exc \in {"ConnectionError", "HTTPError", "Timeout"}}
    \cup {Tags("none", models) :
            models \in {<<"<missing>">>, <<>>, <<"llama2">>, <<"llama2", "mistral">>,
                        <<"mistral", "llama2">>, <<"llama2", "<no name>">>}}

\* The window has started (check_dependencies called get_available_models).
CallInit ==
  \E files \in CallWorlds :
    LET m == check_dependencies(files, TagsOk)
    IN /\ fs = files
       /\ queue = <<>>
       /\ selected_audio_file = m.selected_audio_file
       /\ selected_batch_files = m.selected_batch_files
       /\ batch_processing_index = m.batch_processing_index
       /\ worker = m.worker
       /\ make_notes_button = m.make_notes_button
       /\ select_audio_button = m.select_audio_button
       /\ ollama_model_combo = m.ollama_model_combo
       /\ system_prompt_combo = m.system_prompt_combo
       /\ progress_bar = m.progress_bar
       /\ config_errors = m.config_errors
       /\ combo_data = m.combo_data
       /\ saved = m.saved
       /\ app = m.app
       /\ call = m.call
       /\ workers = m.workers

\* AudioTranscriber(main_exe_path, model_path)
CallAudioTranscriber(main_exe_path, model_path) ==
  /\ call' = Call("AudioTranscriber", fs,
                  [main_exe_path |-> main_exe_path, model_path |-> model_path],
                  [exc |-> AudioTranscriber_init(fs, main_exe_path, model_path)])
  /\ UNCHANGED <<fs, workers, queue, windowVars>>

\* AudioTranscriber.transcribe(audio_file_path)
CallTranscribe(audio_file_path, proc) ==
  LET t == transcribe(fs, audio_file_path, proc)
  IN /\ call' = Call("transcribe", fs,
                     [audio_file_path |-> audio_file_path, proc |-> proc], t)
     /\ fs' = t.fs
     /\ UNCHANGED <<workers, queue, windowVars>>

\* NoteGenerator.generate_notes(transcript, system_prompt, model)
CallGenerateNotes(http) ==
  /\ call' = Call("generate_notes", fs, http, generate_notes(http))
  /\ UNCHANGED <<fs, workers, queue, windowVars>>

\* NoteGenerator.get_available_models()
CallGetAvailableModels(tags) ==
  /\ call' = Call("get_available_models", fs, tags, get_available_models(tags))
  /\ UNCHANGED <<fs, workers, queue, windowVars>>

CallNext ==
  \/ \E model_path \in {ModelBin, NonePath} :
       CallAudioTranscriber(AppConfig(fs).main_exe_path, model_path)
  \/ \E audio_file_path \in {AudioA, NonePath}, proc \in Procs :
       CallTranscribe(audio_file_path, proc)
  \/ \E http \in Https : CallGenerateNotes(http)
  \/ \E tags \in TagsAll : CallGetAvailableModels(tags)

\* The transcriber and the note generator against every behaviour of the
\* file system, the transcription process and the generation service.
CallSpec == CallInit /\ [][CallNext]_vars

\* ------------------------------------------ configuration, helpers, saving

\* The files in place when the configuration is validated: any of the four
\* that validate looks for missing.
HelperWorlds ==
  {AllFiles \ gone : gone \in SUBSET {WhisperExe, WhisperDll, ModelBin, PromptTxt}}

\* The window has started.
HelperInit ==
  \E files \in HelperWorlds :
    LET m == check_dependencies(files, TagsOk)
    IN /\ fs = files
       /\ queue = <<>>
       /\ selected_audio_file = m.selected_audio_file
       /\ selected_batch_files = m.selected_batch_files
       /\ batch_processing_index = m.batch_processing_index
       /\ worker = m.worker
       /\ make_notes_button = m.make_notes_button
       /\ select_audio_button = m.select_audio_button
       /\ ollama_model_combo = m.ollama_model_combo
       /\ system_prompt_combo = m.system_prompt_combo
       /\ progress_bar = m.progress_bar
       /\ config_errors = m.config_errors
       /\ combo_data = m.combo_data
       /\ saved = m.saved
       /\ app = m.app
       /\ call = m.call
       /\ workers = m.workers

\* ConfigManager().validate()
CallValidate ==
  /\ call' = Call("validate", fs, AppConfig(fs), [errors |-> validate(fs, AppConfig(fs))])
  /\ UNCHANGED <<fs, workers, queue, windowVars>>

\* Text as the list of its pieces: a file name "a_b.txt" is <<"a", "_", "b",
\* ".", "txt">>.  str.startswith and str.endswith.
StartsWith(s, prefix) ==
  Len(prefix) <= Len(s) /\ SubSeq(s, 1, Len(prefix)) = prefix
EndsWith(s, suffix) ==
  Len(suffix) <= Len(s) /\ SubSeq(s, Len(s) - Len(suffix) + 1, Len(s)) = suffix

\* A number printed with two digits (%d, %H, %M, %S).
Pad2(n) == <<ToString(n \div 10), ToString(n % 10)>>

\* datetime.now(): the day of the month and the second of the day.
Now(day, sec) == [day |-> day, sec |-> sec]

\* now.strftime("%Y-%m-%d_%H-%M-%S")
strftime(now) ==
  <<"2026-11-">> \o Pad2(now.day) \o <<"_">> \o Pad2(now.sec \div 3600) \o <<"-">>
    \o Pad2((now.sec \div 60) % 60) \o <<"-">> \o Pad2(now.sec % 60)

\* strftime with the format "%Y-%m-%d_%H-%M": no seconds.
get_timestamped_filename_to_the_minute(base_name, extension, now) ==
  LET timestamp == <<"2026-11-">> \o Pad2(now.day) \o <<"_">> \o Pad2(now.sec \div 3600)
                     \o <<"-">> \o Pad2((now.sec \div 60) % 60)
      ext == IF extension # <<>> /\ Head(extension) = "." THEN Tail(extension)
             ELSE extension
  IN <<base_name, "_">> \o timestamp \o <<".">> \o ext

\* get_timestamped_filename(base_name, extension), called when the clock
\* reads now.
get_timestamped_filename(base_name, extension, now) ==
  LET timestamp == strftime(now)
      ext == IF extension # <<>> /\ Head(extension) = "." THEN Tail(extension)
             ELSE extension
  IN <<base_name, "_">> \o timestamp \o <<".">> \o ext

\* save_files, lines 555-564: the three output paths for file_path.
output_file_paths(file_path, now) ==
  LET base_name == file_path.stem
      stamped == get_timestamped_filename(base_name, <<>>, now)
      timestamped_base_name ==
        IF EndsWith(stamped, <<".">>) THEN SubSeq(stamped, 1, Len(stamped) - 1)
        ELSE stamped
      output_dir == "output"
  IN [txt_file_path |-> [dir |-> output_dir,
                         name |-> timestamped_base_name \o <<"_transcript", ".", "txt">>],
      md_file_path |-> [dir |-> output_dir,
                        name |-> timestamped_base_name \o <<"_notes", ".", "md">>],
      pdf_file_path |-> [dir |-> output_dir,
                         name |-> timestamped_base_name \o <<"_notes", ".", "pdf">>]]

\* Readings of the clock: a second, a minute, an hour and a day apart.
Clock ==
  {Now(day, sec) : day \in {1, 2}, sec \in {0, 1, 60, 3600}}

\* Arguments of get_timestamped_filename.
BaseNames == {"test", "a"}
Extensions == {<<"txt">>, <<"pdf">>, <<".", "txt">>, <<>>}

\* get_timestamped_filename(base_name, extension)
CallGetTimestampedFilename(base_name, extension, now) ==
  /\ call' = Call("get_timestamped_filename", fs,
                  [base_name |-> base_name, extension |-> extension, now |-> now],
                  [value |-> get_timestamped_filename(base_name, extension, now)])
  /\ UNCHANGED <<fs, workers, queue, windowVars>>

\* save_files up to the output paths (lines 555-564).
CallOutputFilePaths(file_path, now) ==
  /\ call' = Call("save_files", fs, [file_path |-> file_path, now |-> now],
                  output_file_paths(file_path, now))
  /\ UNCHANGED <<fs, workers, queue, windowVars>>

\* Paths given to validate_audio_file: the supported extensions in lower,
\* upper and mixed case, other extensions, and no extension.
SamplePaths ==
  {Path("rec", "a", ext) :
     ext \in {"mp3", "MP3", "Mp3", "wav", "WAV", "m4a", "M4A", "flac", "FLAC", "aac",
              "Aac", "ogg", "OGG", "txt", "TXT", "mp4", "bin", ""}}

\* validate_audio_file(filepath)
CallValidateAudioFile(filepath) ==
  /\ call' = Call("validate_audio_file", fs, filepath,
                  [value |-> validate_audio_file(filepath)])
  /\ UNCHANGED <<fs, workers, queue, windowVars>>

HelperNext ==
  \/ CallValidate
  \/ \E filepath \in SamplePaths : CallValidateAudioFile(filepath)
  \/ \E file_names \in BatchChoices : SelectBatchFiles(file_names)
  \/ \E base_name \in BaseNames, extension \in Extensions, now \in Clock :
       CallGetTimestampedFilename(base_name, extension, now)
  \/ \E file_path \in {AudioA, AudioB}, now \in Clock : CallOutputFilePaths(file_path, now)

\* The configuration manager, the helpers and the naming and rendering done
\* by save_files, called directly.
HelperSpec == HelperInit /\ [][HelperNext]_vars

\* ------------------------------------------- a batch and the three combos

ModelBinLarge == Path("input", "ggml-large", "bin")
PromptShort == Path("input", "Short_Prompt", "txt")

\* A start-up with two model files, two prompt files and two generation
\* models to choose from.
BatchFiles == AllFiles \cup {ModelBinLarge, PromptShort}
BatchTags == Tags("none", <<"llama2", "mistral">>)

\* The batches the user picks.
BatchLists == {<<AudioA, AudioB>>}

BatchInit ==
  LET m == check_dependencies(BatchFiles, BatchTags)
  IN /\ fs = BatchFiles
     /\ queue = <<>>
     /\ selected_audio_file = m.selected_audio_file
     /\ selected_batch_files = m.selected_batch_files
     /\ batch_processing_index = m.batch_processing_index
     /\ worker = m.worker
     /\ make_notes_button = m.make_notes_button
     /\ select_audio_button = m.select_audio_button
     /\ ollama_model_combo = m.ollama_model_combo
     /\ system_prompt_combo = m.system_prompt_combo
     /\ progress_bar = m.progress_bar
     /\ config_errors = m.config_errors
     /\ combo_data = m.combo_data
     /\ saved = m.saved
     /\ app = m.app
     /\ call = m.call
     /\ workers = m.workers

\* The user picks item k of the transcription model combo, which no handler
\* disables (lines 292-298).
SelectModelBin(k) ==
  LET model_files == get_all_model_files(fs, AppConfig(fs).input_dir)
  IN /\ app = "running"
     /\ k \in 1..Len(model_files)
     /\ Becomes([Self EXCEPT !.combo_data.model_bin = model_files[k]], FALSE)
     /\ UNCHANGED <<fs, queue>>

\* The user picks item k of the system prompt combo while it is enabled
\* (lines 284-289).
SelectSystemPrompt(k) ==
  LET system_prompt_paths == AppConfig(fs).system_prompt_paths
  IN /\ app = "running"
     /\ system_prompt_combo
     /\ k \in 1..Len(system_prompt_paths)
     /\ Becomes([Self EXCEPT !.combo_data.system_prompt = system_prompt_paths[k]], FALSE)
     /\ UNCHANGED <<fs, queue>>

\* The user picks item k of the generation model combo while it is enabled
\* (lines 280-281).
SelectOllamaModel(k) ==
  LET ollama_models == call.output.models
  IN /\ app = "running"
     /\ ollama_model_combo
     /\ call.fn = "get_available_models"
     /\ k \in 1..Len(ollama_models)
     /\ Becomes([Self EXCEPT !.combo_data.ollama_model = ollama_models[k]], FALSE)
     /\ UNCHANGED <<fs, queue>>

BatchNext ==
  \/ \E fl \in BatchLists : SelectBatchFiles(fl)
  \/ \E k \in 1..2 : SelectModelBin(k)
  \/ \E k \in 1..2 : SelectSystemPrompt(k)
  \/ \E k \in 1..2 : SelectOllamaModel(k)
  \/ \E yes \in BOOLEAN, destroyed \in BOOLEAN : GenerateNotes(yes, destroyed)
  \/ UpdateProgress
  \/ UpdateLog
  \/ \E io \in IoOutcomes, destroyed \in BOOLEAN, fatal \in BOOLEAN :
       BatchGenerationFinished(io, destroyed, fatal)
  \/ \E w \in Slots : WorkerBegin(w)
  \/ \E w \in Slots, proc \in UiProcs : WorkerTranscribe(w, proc)
  \/ \E w \in Slots, http \in UiHttps : WorkerGenerate(w, "ok", http)

\* The window running batches while the user changes the combo selections.
BatchSpec == BatchInit /\ [][BatchNext]_vars

\* ------------------------------------------ the line scan of the PDF copy

\* Longest notes text, in lines.
MaxLines == 3

\* A line of the notes is the list of its pieces, as file names are; " " is
\* a blank.  str.strip().
RECURSIVE strip_left(_)
strip_left(line) ==
  IF line # <<>> /\ Head(line) = " " THEN strip_left(Tail(line)) ELSE line

RECURSIVE strip_right(_)
strip_right(line) ==
  IF line # <<>> /\ line[Len(line)] = " "
  THEN strip_right(SubSeq(line, 1, Len(line) - 1)) ELSE line

strip(line) == strip_right(strip_left(line))

\* sub in line, for the texts the scan looks for; the piece "'" is the
\* backquote of inline code.
Contains(line, sub) ==
  \E k \in 1..Len(line) : k + Len(sub) - 1 <= Len(line)
                            /\ SubSeq(line, k, k + Len(sub) - 1) = sub

\* '*' in line: the pieces that hold an asterisk.
HasAsterisk(line) == \E k \in 1..Len(line) : line[k] \in {"*", "**", "***", "* "}

\* len(line) - len(line.lstrip('#'))
RECURSIVE level(_)
level(line) == IF line # <<>> /\ Head(line) = "#" THEN 1 + level(Tail(line)) ELSE 0

\* line.startswith(('- ', '* ', '+ ')) or re.match(r'^\d+\.', line)
is_list_line(line) ==
  /\ line # <<>>
  /\ \/ Head(line) \in {"- ", "* ", "+ "}
     \/ Len(line) >= 2 /\ Head(line) \in {"1", "2", "10"} /\ line[2] = "."

\* What follows the last dot of the urls of the notes, in lower case
\* (img_url.lower().endswith, line 782).
url_extension(img_url) ==
  CASE img_url = "icon.png" -> "png"
    [] img_url = "page.html" -> "html"
    [] OTHER -> ""

\* One consumed line in the story: its number, how it was classified and
\* what was rendered for it.
Entry(n, class, render) == [line |-> n, class |-> class, render |-> render]

\* The branches of the scan for a line that is neither blank nor the start of
\* a list (lines 690-706 and 749-797), in the order of the elif chain.
render_line(n, line, image_loads) ==
  IF Head(line) = "#"
  THEN Entry(n, "heading", <<IF level(line) >= 3 THEN 3 ELSE level(line)>>)
  ELSE IF Head(line) \in {"---", "***", "___"}
  THEN Entry(n, "rule", <<>>)
  ELSE IF Contains(line, <<"**">>) \/ HasAsterisk(line) \/ Contains(line, <<"~~">>)
          \/ Contains(line, <<"'">>)
  THEN Entry(n, "inline", line)
  ELSE IF Contains(line, <<"]", "(">>)
  THEN Entry(n, "link", line)
  ELSE IF /\ Contains(line, <<"!", "[">>) /\ Contains(line, <<"]">>)
          /\ Contains(line, <<"(">>) /\ Contains(line, <<")">>)
  THEN IF Len(line) = 7 /\ SubSeq(line, 1, 2) = <<"!", "[">>
          /\ SubSeq(line, 4, 5) = <<"]", "(">> /\ line[7] = ")"
       THEN LET alt_text == line[3]
                img_url == line[6]
            IN IF url_extension(img_url) \in {"png", "jpg", "jpeg", "gif", "bmp"}
               THEN IF image_loads THEN Entry(n, "image", <<"embedded", alt_text>>)
                    ELSE Entry(n, "image", <<alt_text>>)
               ELSE Entry(n, "image", <<>>)
       ELSE Entry(n, "paragraph", line)
  ELSE Entry(n, "paragraph", line)

\* The inner loop of the list branch (lines 722-738): from line i on (i lines
\* are consumed already), the list lines and their continuations.
RECURSIVE list_items(_, _, _)
list_items(lines, i, items) ==
  IF /\ i < Len(lines)
     /\ LET l == strip(lines[i + 1])
        IN \/ is_list_line(l)
           \/ /\ items # <<>>
              /\ Len(l) >= 2 /\ SubSeq(l, 1, 2) = <<" ", " ">>
              /\ Head(l) # "#"
  THEN LET list_line == strip(lines[i + 1])
           item == IF is_list_line(list_line) THEN Entry(i + 1, "list", list_line)
                   ELSE Entry(i + 1, "continuation", list_line)
       IN list_items(lines, i + 1, items \o <<item>>)
  ELSE [i |-> i, story |-> items]

\* The list branch with the trailing increment of the other branches.
iteration_falling_through(lines, i, image_loads) ==
  LET line == strip(lines[i + 1])
  IN IF line = <<>> THEN [i |-> i + 1, story |-> <<Entry(i + 1, "blank", <<>>)>>]
     ELSE IF is_list_line(line)
     THEN [i |-> list_items(lines, i, <<>>).i + 1, story |-> list_items(lines, i, <<>>).story]
     ELSE [i |-> i + 1, story |-> <<render_line(i + 1, line, image_loads)>>]

\* One iteration of the outer loop (lines 683-800) with i lines consumed:
\* the new i and what is added to the story.
iteration(lines, i, image_loads) ==
  LET line == strip(lines[i + 1])
  IN IF line = <<>> THEN [i |-> i + 1, story |-> <<Entry(i + 1, "blank", <<>>)>>]
     ELSE IF is_list_line(line) THEN list_items(lines, i, <<>>)
     ELSE [i |-> i + 1, story |-> <<render_line(i + 1, line, image_loads)>>]

\* Lines of notes: blank, headings, a rule, list items, an indented
\* continuation, inline styles, a link, image references, plain text.
SampleLines ==
  {<<>>, <<"#", "#", "#", "#", " ", "Deep">>, <<"---">>,
   <<"- ", "item">>, <<"1", ".", " ", "item">>, <<" ", " ", "more">>,
   <<"**", "bold", "**">>, <<"[", "text", "]", "(", "page.html", ")">>,
   <<"!", "[", "alt", "]", "(", "icon.png", ")">>,
   <<"!", "[", "alt", "]", "(", "http://x/chart", ")">>, <<"text">>}

RECURSIVE LinesUpTo(_)
LinesUpTo(n) ==
  IF n = 0 THEN {<<>>}
  ELSE LET shorter == LinesUpTo(n - 1)
       IN shorter \cup {Append(q, l) : q \in {s \in shorter : Len(s) = n - 1},
                                       l \in SampleLines}

\* notes.split('\n') for the notes texts of at most MaxLines lines.
Notes == LinesUpTo(MaxLines) \ {<<>>}

\* save_files has reached the scan: lines = notes.split('\n'), i = 0
\* (lines 680-681).
ScanInit ==
  \E lines \in Notes, image_loads \in BOOLEAN :
    LET m == check_dependencies(AllFiles, TagsOk)
    IN /\ fs = AllFiles
       /\ queue = <<>>
       /\ selected_audio_file = m.selected_audio_file
       /\ selected_batch_files = m.selected_batch_files
       /\ batch_processing_index = m.batch_processing_index
       /\ worker = m.worker
       /\ make_notes_button = m.make_notes_button
       /\ select_audio_button = m.select_audio_button
       /\ ollama_model_combo = m.ollama_model_combo
       /\ system_prompt_combo = m.system_prompt_combo
       /\ progress_bar = m.progress_bar
       /\ config_errors = m.config_errors
       /\ combo_data = m.combo_data
       /\ saved = m.saved
       /\ app = m.app
       /\ workers = m.workers
       /\ call = Call("save_files", fs, [lines |-> lines, image_loads |-> image_loads],
                      [i |-> 0, story |-> <<>>])

\* One iteration of the while loop of the scan.
ScanIteration ==
  /\ call.output.i < Len(call.input.lines)
  /\ LET r == iteration(call.input.lines, call.output.i, call.input.image_loads)
     IN call' = [call EXCEPT !.output = [i |-> r.i, story |-> @.story \o r.story]]
  /\ UNCHANGED <<fs, workers, queue, windowVars>>

ScanNext == ScanIteration

\* The scan of save_files over every notes text.
ScanSpec == ScanInit /\ [][ScanNext]_vars

\* ------------------------------------------------------------------ claims

\* The signals of thread w in the event queue, in the order it emitted them.
Emitted(w) == SelectSeq(queue, LAMBDA sig : sig.w = w)

\* A thread whose terminal result the window has not handled yet.
Unhandled(w) ==
  \/ Running(workers[w])
  \/ \E i \in 1..Len(queue) : queue[i].w = w /\ queue[i].name = "finished"

\* How the error lines of the except clauses of the two run() methods begin.
ErrorPrefixes ==
  {"File not found: ", "Transcription error: ", "Note generation error: ",
   "Value error: ", "An unexpected error occurred: "}

\* The exceptions that leave the AudioTranscriber constructor or transcribe.
TranscriptionFailures ==
  ({AudioTranscriber_init(files, AppConfig(files).main_exe_path, model_path) :
      files \in WorkerWorlds, model_path \in {ModelBin, NonePath}}
   \cup {transcribe(files, audio, proc).exc :
           files \in WorkerWorlds, audio \in {AudioA, NonePath}, proc \in Procs})
  \ {NoExc}

\* The exceptions that leave generate_notes.
GenerationFailures == {generate_notes(http).exc : http \in Https} \ {NoExc}

\* C1: in a window that started without configuration errors, at most one
\* background worker is active at any time: no worker is started while an
\* earlier one has not emitted its terminal result.
C1_AtMostOneActiveWorker ==
  ~config_errors => Cardinality({w \in Slots : Running(workers[w])}) <= 1

\* C2: when the start-up dependency check reported a configuration error,
\* the Generate Meeting Notes button is disabled and no job has been started.
C2_ConfigErrorBlocksTrigger ==
  config_errors =>
    /\ ~make_notes_button
    /\ \A w \in Slots : workers[w].state = "Free"

\* C3: a present result that has been handled was persisted under the base
\* name of the audio file given to the worker that produced it.
C3_PersistedUnderJobName ==
  saved.present =>
    /\ saved.attempted # {}
    /\ saved.path = saved.job

\* C4: once save_files starts writing, each of the three targets is
\* attempted, whichever of the writes fail.
C4_WritesIndependent ==
  saved.attempted # {} =>
    /\ saved.attempted = {"transcript.txt", "notes.md", "notes.pdf"}
    /\ saved.reported = saved.attempted \ saved.written

\* C5: in a window that started without configuration errors, the worker of
\* a batch file is started only after the terminal result of every earlier
\* batch worker has been handled: a running batch worker is the only batch
\* worker whose result the window has not handled.
C5_BatchSequentialInOrder ==
  ~config_errors =>
    \A w \in Slots :
      (workers[w].slot = "batch_generation_finished" /\ Running(workers[w])) =>
        \A v \in Slots \ {w} :
          workers[v].slot = "batch_generation_finished" => ~Unhandled(v)

\* C6: in a window that started without configuration errors, handling the
\* terminal result of a batch job, present or absent, never stops the batch:
\* the handler reaches process_next_batch_file, which starts the next job or
\* signals the completion of the batch, and no exception leaves it.
C6_BatchNeverStops ==
  (~config_errors /\ saved.handler = "batch_generation_finished") => ~saved.raised

\* C7: a ProcessingWorker's run() lets no exception out: a failed run has
\* emitted exactly one error line, directly followed by the None result.
C7_NoFailureEscapes ==
  \A w \in Slots :
    workers[w].kind = "ProcessingWorker" =>
      /\ workers[w].state # "Escaped"
      /\ workers[w].state = "Failed" =>
           LET em == Emitted(w)
               n == Len(em)
           IN /\ n >= 2
              /\ em[n] = finished_emit(w, NoneResult)
              /\ em[n - 1].name = "log"
              /\ Cardinality({i \in 1..n : /\ em[i].name = "log"
                                           /\ em[i].line.prefix \in ErrorPrefixes}) = 1
              /\ em[n - 1].line.prefix \in ErrorPrefixes

C7_Witness ==
  \E w \in Slots :
    /\ workers[w].kind = "ProcessingWorker"
    /\ workers[w].state = "Failed"
    /\ workers[w].calls = <<"AudioTranscriber", "raise">>
    /\ Emitted(w)[Len(Emitted(w)) - 1].line.prefix = "An unexpected error occurred: "

\* C8: a run of either worker that has ended emitted exactly one terminal
\* result, present exactly when it succeeded, as its last signal; a run that
\* has not ended emitted none.
C8_OneTerminalSignalLast ==
  \A w \in Slots :
    LET em == Emitted(w)
        n == Len(em)
        fin == {i \in 1..n : em[i].name = "finished"}
    IN IF workers[w].state \in {"Completed", "Failed", "Escaped"}
       THEN /\ fin = {n}
            /\ n > 0
            /\ em[n].result.present <=> workers[w].state = "Completed"
       ELSE fin = {}

C8_Witness ==
  \E w \in Slots :
    /\ workers[w].kind = "TranscriptionOnlyWorker"
    /\ workers[w].state = "Completed"
    /\ Emitted(w)[Len(Emitted(w))].result.present
    /\ Emitted(w)[Len(Emitted(w)) - 1] = progress_emit(w, 90)

\* C9: a ProcessingWorker moves Idle -> Transcribing -> GeneratingNotes ->
\* Completed, and to Failed only from Transcribing or GeneratingNotes;
\* generate_notes is called only after transcribe has returned, a present
\* result is emitted only after generate_notes has returned, and it carries
\* the transcript and the notes those two calls returned.
C9_PipelineOrder ==
  /\ [](\A w \in Slots :
          workers[w].kind = "ProcessingWorker" =>
            LET wk == workers[w]
                em == Emitted(w)
            IN /\ wk.state \in {"Idle", "Transcribing"} => wk.calls = <<>>
               /\ wk.state = "GeneratingNotes" =>
                    wk.calls = <<"AudioTranscriber", "transcribe">>
               /\ wk.state = "Completed" =>
                    /\ wk.calls = <<"AudioTranscriber", "transcribe",
                                    "get_system_prompt", "generate_notes">>
                    /\ em[Len(em)] = finished_emit(w, Result(wk.notes, wk.transcript))
               /\ wk.state = "Failed" => wk.calls[Len(wk.calls)] = "raise"
               /\ \A i \in 1..Len(wk.calls) :
                    wk.calls[i] = "generate_notes" =>
                      /\ i = 4
                      /\ SubSeq(wk.calls, 1, 3) =
                           <<"AudioTranscriber", "transcribe", "get_system_prompt">>
               /\ \A i \in 1..Len(em) :
                    (em[i].name = "finished" /\ em[i].result.present) =>
                      wk.calls[Len(wk.calls)] = "generate_notes")
  /\ [][\A w \in Slots :
          (workers[w].kind = "ProcessingWorker" /\ workers'[w].state # workers[w].state) =>
            <<workers[w].state, workers'[w].state>> \in
              {<<"Idle", "Transcribing">>, <<"Transcribing", "GeneratingNotes">>,
               <<"GeneratingNotes", "Completed">>, <<"Transcribing", "Failed">>,
               <<"GeneratingNotes", "Failed">>}]_vars

C9_Witness ==
  \E w \in Slots :
    /\ workers[w].kind = "ProcessingWorker"
    /\ workers[w].state = "Completed"
    /\ workers[w].transcript = "t2"
    /\ workers[w].notes = "n1"
    /\ Emitted(w)[Len(Emitted(w))].result = Result("n1", "t2")

\* C10: when the prompt path is None, or the prompt file is missing or cannot
\* be read, the step that asks for the prompt ends the job as failed without
\* calling generate_notes, and its error line is none of the lines a failure
\* of the transcription or of the note generation gives.
C10_PromptFailureDistinct ==
  [][\A w \in Slots :
       (\E read \in Reads, http \in Https :
          /\ \/ workers[w].system_prompt_path = NonePath
             \/ ~exists(fs, workers[w].system_prompt_path)
             \/ read # "ok"
          /\ WorkerGenerate(w, read, http)) =>
         LET em == SelectSeq(queue', LAMBDA sig : sig.w = w)
             report == em[Len(em) - 1].line
         IN /\ workers'[w].state = "Failed"
            /\ \A i \in 1..Len(workers'[w].calls) :
                 workers'[w].calls[i] # "generate_notes"
            /\ em[Len(em)] = finished_emit(w, NoneResult)
            /\ report.prefix \notin {"Transcription error: ", "Note generation error: "}
            /\ \A e \in TranscriptionFailures \cup GenerationFailures :
                 report # ProcessingWorker_except(e).line]_vars

C10_Witness ==
  \E w \in Slots :
    /\ workers[w].kind = "ProcessingWorker"
    /\ workers[w].state = "Failed"
    /\ workers[w].system_prompt_path = NonePath
    /\ workers[w].calls =
         <<"AudioTranscriber", "transcribe", "get_system_prompt", "raise">>

\* C11: in a window that started without configuration errors and keeps
\* running, the value the foreground thread shows in the progress bar never
\* decreases within a job:
\* the step that starts a job (a worker thread is created for it) leaves the
\* bar at 0, and while at most one job awaits its terminal result every other
\* step leaves the bar where it was or higher (10, 50, 90, then 100 when the
\* terminal result is handled), in a single job and in every job of a batch.
C11_ObservedProgressMonotone ==
  [][(~config_errors /\ app' = "running") =>
       IF \E w \in Slots : workers[w].state = "Free" /\ workers'[w].state # "Free"
       THEN progress_bar' = 0
       ELSE Cardinality({w \in Slots : Unhandled(w)}) <= 1 =>
              progress_bar' >= progress_bar]_vars

\* C12: the transcriber fails fast with FileNotFoundError: constructing it
\* with an executable path or a model path that does not exist, an absent
\* (None) model path included, raises FileNotFoundError, and transcribe of
\* an audio path that does not exist raises FileNotFoundError without
\* spawning the process.
C12_NotFoundFailsFast ==
  /\ (/\ call.fn = "AudioTranscriber"
      /\ \/ ~exists(call.before, call.input.main_exe_path)
         \/ ~exists(call.before, call.input.model_path))
       => call.output.exc.type = "FileNotFoundError"
  /\ (/\ call.fn = "transcribe"
      /\ call.input.audio_file_path # NonePath
      /\ ~exists(call.before, call.input.audio_file_path))
       => /\ call.output.exc.type = "FileNotFoundError"
          /\ ~call.output.spawned

\* C13: when the transcription process of a worker exits with a non-zero
\* code, transcribe raises a TranscriptionError whose message carries the
\* standard-error text, the sidecar file is neither read nor deleted (a file
\* at its path stays), and the worker ends its run by emitting the None
\* result after the "Transcription error" line, with no transcript kept.
C13_NonzeroExitFails ==
  [][\A w \in Slots : \A proc \in Procs :
       (/\ proc.popen = "ok"
        /\ proc.returncode # 0
        /\ workers[w].calls = <<>>
        /\ workers'[w].calls = <<"AudioTranscriber", "transcribe", "raise">>
        /\ exists(fs, workers[w].selected_audio_file)
        /\ WorkerTranscribe(w, proc))
         => LET t == transcribe(fs, workers[w].selected_audio_file, proc)
                sidecar == with_suffix_txt(workers[w].selected_audio_file)
                em == Emitted(w)'
                n == Len(em)
            IN /\ t.exc.type = "TranscriptionError"
               /\ \E i \in 1..Len(t.exc.msg) : t.exc.msg[i] = proc.stderr
               /\ ~t.read
               /\ ~t.deleted
               /\ sidecar \in fs' <=> (sidecar \in fs \/ proc.writes_sidecar)
               /\ workers'[w].state = "Failed"
               /\ workers'[w].transcript = ""
               /\ em[n] = finished_emit(w, NoneResult)
               /\ em[n - 1].name = "log"
               /\ em[n - 1].line.prefix = "Transcription error: "
               /\ \E i \in 1..Len(em[n - 1].line.msg) : em[n - 1].line.msg[i] = proc.stderr
               /\ \A i \in 1..(n - 1) : em[i].name # "finished"]_vars

C13_Witness ==
  \E w \in Slots :
    LET em == Emitted(w)
        n == Len(em)
    IN /\ workers[w].state = "Failed"
       /\ workers[w].calls = <<"AudioTranscriber", "transcribe", "raise">>
       /\ em[n - 1].line.prefix = "Transcription error: "
       /\ \E i \in 1..Len(em[n - 1].line.msg) :
            em[n - 1].line.msg[i] = "Error during transcription: "
       /\ with_suffix_txt(workers[w].selected_audio_file) \in fs

\* The message of the exception a call raised has this part.
Carries(e, part) == \E i \in 1..Len(e.msg) : e.msg[i] = part

\* C14: when the transcription process exits with code zero and no file is
\* at the sidecar path (the audio path with its extension replaced by .txt),
\* transcribe raises a TranscriptionError that names the missing output file
\* and does not look like the error of a non-zero exit; nothing is read or
\* deleted, the file system is left as it was (no second run of the process
\* produces the file), and no text is returned.
C14_MissingOutputFails ==
  (/\ call.fn = "transcribe"
   /\ exists(call.before, call.input.audio_file_path)
   /\ call.input.proc.popen = "ok"
   /\ call.input.proc.returncode = 0
   /\ ~call.input.proc.writes_sidecar
   /\ ~exists(call.before, with_suffix_txt(call.input.audio_file_path)))
    => /\ call.output.exc.type = "TranscriptionError"
       /\ Carries(call.output.exc, "Transcription output file not found: ")
       /\ ~Carries(call.output.exc, "Error during transcription: ")
       /\ ~Carries(call.output.exc, call.input.proc.stderr)
       /\ call.output.spawned
       /\ ~call.output.read
       /\ ~call.output.deleted
       /\ call.output.value = ""
       /\ fs = call.before

C14_Witness ==
  /\ call.fn = "transcribe"
  /\ call.input.proc.popen = "ok"
  /\ call.input.proc.returncode = 0
  /\ ~call.input.proc.writes_sidecar
  /\ call.output.spawned
  /\ Carries(call.output.exc, "Transcription output file not found: ")

\* C15: when the sidecar file has been read and deleting it fails, transcribe
\* still returns normally, with the text that was read.
C15_CleanupFailureTolerated ==
  (/\ call.fn = "transcribe"
   /\ call.output.read
   /\ call.input.proc.unlink # "ok")
    => /\ call.output.exc = NoExc
       /\ call.output.value =
            IF call.input.proc.writes_sidecar THEN call.input.proc.text
            ELSE OldText(with_suffix_txt(call.input.audio_file_path))

\* C16: whenever transcribe returns normally, the text it returns is the
\* content of the sidecar file (what the process wrote, or what was there
\* when the process wrote nothing) and the sidecar file is gone; the file is
\* read before it is deleted: it is never deleted unread, and a read that
\* fails leaves it in place.
C16_ReturnsSidecarThenDeletes ==
  call.fn = "transcribe" =>
    LET output_txt_file == with_suffix_txt(call.input.audio_file_path)
        proc == call.input.proc
    IN /\ call.output.exc = NoExc =>
            /\ call.output.value = IF proc.writes_sidecar THEN proc.text
                                   ELSE OldText(output_txt_file)
            /\ call.output.read
            /\ call.output.deleted
            /\ output_txt_file \notin fs
       /\ call.output.deleted => call.output.read
       /\ (/\ call.output.spawned
           /\ proc.popen = "ok"
           /\ proc.returncode = 0
           /\ proc.read # "ok"
           /\ proc.writes_sidecar \/ output_txt_file \in call.before)
            => (~call.output.deleted /\ output_txt_file \in fs)

C16_Witness ==
  /\ call.fn = "transcribe"
  /\ call.output.exc = NoExc
  /\ call.output.value \in Texts
  /\ with_suffix_txt(call.input.audio_file_path) \notin fs

\* C17: for a response without HTTP failure whose body ends with a line that
\* is a JSON record, generate_notes returns the "response" field of that
\* last line whatever the earlier lines are, and the placeholder text when
\* the record has no "response" field.
C17_LastLineResponse ==
  (/\ call.fn = "generate_notes"
   /\ call.input.exc = "none"
   /\ call.input.body # <<>>
   /\ call.input.body[Len(call.input.body)].k = "record")
    => LET last == call.input.body[Len(call.input.body)]
       IN /\ call.output.exc = NoExc
          /\ call.output.value = IF last.response = "<missing>"
                                 THEN "No response from model."
                                 ELSE last.response

C17_Witness ==
  /\ call.fn = "generate_notes"
  /\ Len(call.input.body) = 2
  /\ call.input.body[1] = JsonRecord("n1")
  /\ call.input.body[2] = JsonRecord("<missing>")
  /\ call.output.value = "No response from model."

\* C18: every failure of generate_notes is a NoteGenerationError, and the
\* four causes have their own messages: connection failure, timeout, HTTP
\* failure, and a malformed response (the last line of the body is empty, is
\* not JSON, or is JSON but not a record).
C18_OnlyNoteGenerationError ==
  (call.fn = "generate_notes" /\ call.output.exc # NoExc) =>
    LET lines == strip_split(call.input.body)
        e == call.output.exc
    IN /\ e.type = "NoteGenerationError"
       /\ call.input.exc = "ConnectionError" =>
            Carries(e, "Cannot connect to Ollama. Is it running?")
       /\ call.input.exc = "Timeout" => Carries(e, "Request to Ollama timed out.")
       /\ call.input.exc = "HTTPError" => Carries(e, "HTTP error from Ollama API: ")
       /\ (call.input.exc = "none" /\ lines[Len(lines)].k # "record") =>
            Carries(e, "Error decoding Ollama response: ")

\* C19: get_available_models raises a NoteGenerationError with its own
\* message in each of three cases: the service cannot be reached, the
\* request fails with an HTTP status, and the body has no "models" field or
\* an entry without "name"; otherwise it returns the names of the entries
\* of "models", in their order.
C19_ModelListing ==
  call.fn = "get_available_models" =>
    LET e == call.output.exc
        unreachable == "ERROR: Cannot connect to Ollama."
        status == "ERROR: HTTP error from Ollama API: "
        malformed == call.input.models = <<"<missing>">>
                       \/ \E i \in 1..Len(call.input.models) :
                            call.input.models[i] = "<no name>"
    IN /\ call.input.exc = "ConnectionError" =>
            (e.type = "NoteGenerationError" /\ Carries(e, unreachable)
               /\ ~Carries(e, status))
       /\ call.input.exc = "HTTPError" =>
            (e.type = "NoteGenerationError" /\ Carries(e, status)
               /\ ~Carries(e, unreachable))
       /\ (call.input.exc = "none" /\ malformed) =>
            /\ e.type = "NoteGenerationError"
            /\ ~Carries(e, unreachable)
            /\ ~Carries(e, status)
            /\ \/ Carries(e, "Invalid response format from Ollama API")
               \/ Carries(e, "ERROR: Error parsing Ollama response: ")
       /\ (call.input.exc = "none" /\ ~malformed) =>
            (e = NoExc /\ call.output.models = call.input.models)

C19_Witness ==
  /\ call.fn = "get_available_models"
  /\ call.input = Tags("none", <<"llama2", "<no name>">>)
  /\ Carries(call.output.exc, "ERROR: Error parsing Ollama response: ")

\* The calls that block on the network or on the transcription process.
BlockingCalls == {"get_available_models", "generate_notes", "transcribe"}

\* C20: the foreground thread never makes a blocking call itself: no request
\* to the generation service and no wait on the transcription process is made
\* by the thread that runs the window; the worker threads make them.
C20_ForegroundNeverBlocks ==
  call.thread = "MainThread" => call.fn \notin BlockingCalls

\* The entries of a list that are among the given ones, in their order.
Among(list, given) == SelectSeq(list, LAMBDA x : x \in given)

\* C21: validate returns the empty list exactly when the executable exists,
\* the support library exists, a model file was found and a prompt file was
\* found; otherwise the message of each of the four checks is in the list
\* exactly when that check failed, and the messages are in the order
\* executable, library, model, prompt.
C21_ValidateMessages ==
  call.fn = "validate" =>
    LET errors == call.output.errors
        exe == "ERROR: Whisper.exe not found"
        dll == "ERROR: Whisper.dll not found"
        model == "ERROR: No .bin model file found"
        prompt == "ERROR: No System_Prompt*.txt file found"
        no_exe == WhisperExe \notin call.before
        no_dll == WhisperDll \notin call.before
        no_model == ~\E p \in call.before : p.dir = "input" /\ p.ext = "bin"
        no_prompt == ~\E p \in call.before : p.dir = "input" /\ p.ext = "txt"
    IN /\ errors = <<>> <=> ~(no_exe \/ no_dll \/ no_model \/ no_prompt)
       /\ Among(errors, {exe, dll, model, prompt}) =
            (IF no_exe THEN <<exe>> ELSE <<>>) \o (IF no_dll THEN <<dll>> ELSE <<>>)
              \o (IF no_model THEN <<model>> ELSE <<>>)
              \o (IF no_prompt THEN <<prompt>> ELSE <<>>)

C21_Witness ==
  /\ call.fn = "validate"
  /\ WhisperExe \in call.before
  /\ WhisperDll \notin call.before
  /\ PromptTxt \notin call.before
  /\ Len(call.output.errors) = 6

\* The extensions that are one of mp3, wav, m4a, flac, aac, ogg when case is
\* ignored, among those of the sample paths and of the files of the dialogs.
AudioExtensions ==
  {"mp3", "MP3", "Mp3", "wav", "WAV", "m4a", "M4A", "flac", "FLAC", "aac", "Aac",
   "ogg", "OGG"}

\* C22: validate_audio_file returns true exactly for the paths whose
\* extension is, case ignored, one of mp3, wav, m4a, flac, aac, ogg, and
\* false for every other path; every file that the batch selection keeps has
\* such an extension.
C22_AudioExtensionsOnly ==
  /\ call.fn = "validate_audio_file" =>
       (call.output.value <=> call.input.ext \in AudioExtensions)
  /\ \A i \in 1..Len(selected_batch_files) :
       selected_batch_files[i].ext \in AudioExtensions

C22_Witness ==
  /\ call.fn = "validate_audio_file"
  /\ call.input.ext = "FLAC"
  /\ call.output.value
  /\ Len(selected_batch_files) = 2

\* The three output paths of one save are in the output directory and are
\* named <base>_transcript.txt, <base>_notes.md and <base>_notes.pdf, with
\* <base> the name of the audio file without extension, "_", and one
\* timestamp for the three.
OutputNamesShareBase ==
  call.fn = "save_files" =>
    LET base == <<call.input.file_path.stem, "_">> \o strftime(call.input.now)
    IN /\ call.output.txt_file_path =
            [dir |-> "output", name |-> base \o <<"_transcript", ".", "txt">>]
       /\ call.output.md_file_path =
            [dir |-> "output", name |-> base \o <<"_notes", ".", "md">>]
       /\ call.output.pdf_file_path =
            [dir |-> "output", name |-> base \o <<"_notes", ".", "pdf">>]

\* Two calls of get_timestamped_filename in a row with the same arguments, at
\* different readings of the clock, give different names.
NamesDifferBySecond ==
  (/\ call.fn = "get_timestamped_filename"
   /\ call'.fn = "get_timestamped_filename"
   /\ call'.input.base_name = call.input.base_name
   /\ call'.input.extension = call.input.extension
   /\ call'.input.now # call.input.now)
    => call'.output.value # call.output.value

\* C23: the three output paths of a save share one timestamped base;
\* get_timestamped_filename(b, e) starts with b followed by "_" and ends
\* with "." followed by e, whatever b and e are; calls at different clock
\* seconds give different names.
C23_TimestampedNames ==
  /\ [](/\ OutputNamesShareBase
        /\ call.fn = "get_timestamped_filename" =>
             /\ StartsWith(call.output.value, <<call.input.base_name, "_">>)
             /\ EndsWith(call.output.value, <<".">> \o call.input.extension))
  /\ [][NamesDifferBySecond]_vars

\* C23, amended: as C23, with the end of the name being "." followed by e
\* without the one leading dot e may have.
C23_TimestampedNamesDotDropped ==
  /\ [](/\ OutputNamesShareBase
        /\ call.fn = "get_timestamped_filename" =>
             LET e == call.input.extension
             IN /\ StartsWith(call.output.value, <<call.input.base_name, "_">>)
                /\ EndsWith(call.output.value,
                            <<".">> \o (IF e # <<>> /\ Head(e) = "." THEN Tail(e) ELSE e)))
  /\ [][NamesDifferBySecond]_vars

C23_Witness ==
  /\ call.fn = "get_timestamped_filename"
  /\ call.input.extension = <<".", "txt">>
  /\ call.input.now = Now(1, 3600)
  /\ call.output.value = <<"test", "_", "2026-11-", "0", "1", "_", "0", "1", "-", "0", "0",
                           "-", "0", "0", ".", "txt">>

\* C24: in a window that started without configuration errors, a worker that
\* has been started is never cancelled: as long as its run has not ended its
\* next step can be taken (the run goes on when the blocking call returns);
\* and the step that handles its terminal result enables the trigger control
\* again, in single mode always and in batch mode when no further job is
\* started.
C24_RunsToCompletion ==
  /\ [](~config_errors =>
          \A w \in Slots : Running(workers[w]) => ENABLED WorkerStep(w))
  /\ [][(/\ ~config_errors
         /\ queue # <<>>
         /\ Head(queue).name = "finished"
         /\ queue' = Tail(queue)
         /\ \/ workers[Head(queue).w].slot = "generation_finished"
            \/ \A v \in Slots : workers'[v].state = "Free" <=> workers[v].state = "Free")
          => make_notes_button']_vars

\* A line that is an inline image reference ![alt](url).
IsImageReference(line) ==
  /\ Len(line) = 7
  /\ SubSeq(line, 1, 2) = <<"!", "[">>
  /\ SubSeq(line, 4, 5) = <<"]", "(">>
  /\ line[7] = ")"

\* C25: the scan classifies a line that is an inline image reference as an
\* image line, not as a link or an inline-styled line: the image is embedded
\* when the url names a raster image file that loads, and the alt text is
\* rendered otherwise.
C25_ImageLines ==
  \A k \in 1..Len(call.output.story) :
    LET entry == call.output.story[k]
        line == strip(call.input.lines[entry.line])
    IN IsImageReference(line) =>
         /\ entry.class = "image"
         /\ entry.render =
              IF url_extension(line[6]) \in {"png", "jpg", "jpeg", "gif", "bmp"}
                 /\ call.input.image_loads
              THEN <<"embedded", line[3]>> ELSE <<line[3]>>

\* C30: the scan terminates for every notes text and consumes every line
\* exactly once: the lines consumed so far are lines 1..i in order, each
\* once; the scan is over or its next iteration can run; and every iteration,
\* the list branch included, advances i by at least one and never past the
\* end of the lines.
C30_ScanConsumesEachLineOnce ==
  /\ [](LET i == call.output.i
            story == call.output.story
        IN /\ i <= Len(call.input.lines)
           /\ Len(story) = i
           /\ \A k \in 1..Len(story) : story[k].line = k
           /\ i = Len(call.input.lines) \/ ENABLED ScanIteration)
  /\ [][call'.output.i >= call.output.i + 1]_vars

\* A finished scan of two list lines, consumed by one iteration, and a
\* paragraph.
C30_Witness ==
  /\ call.input.lines = <<<<"- ", "item">>, <<"1", ".", " ", "item">>, <<"text">>>>
  /\ call.output.i = 3
  /\ call.output.story[1].class = "list"
  /\ call.output.story[2].class = "list"
  /\ call.output.story[3].class = "paragraph"

\* C26: in a window that started without configuration errors, whenever
\* batch_generation_finished reads selected_batch_files[batch_processing_index]
\* the index is within the list (no IndexError leaves the handler) and the
\* entry read is the audio file of the worker whose result is being handled,
\* whatever the user selected while the batch ran.
C26_BatchIndexReadsItsJob ==
  (~config_errors /\ app = "running" /\ saved.handler = "batch_generation_finished") =>
    /\ ~saved.raised
    /\ saved.path = saved.job

JobParameters(wk) ==
  [system_prompt_path |-> wk.system_prompt_path, ollama_model |-> wk.ollama_model,
   selected_model_path |-> wk.selected_model_path]

\* C28: all jobs of one batch run with the system prompt, generation model
\* and transcription model file selected when the batch was confirmed: the
\* job that batch_generation_finished starts has the parameters of the job
\* whose result it handles, whatever the user did in between.
C28_BatchParametersFixed ==
  [][(/\ app = "running"
      /\ queue # <<>>
      /\ Head(queue).name = "finished"
      /\ workers[Head(queue).w].slot = "batch_generation_finished"
      /\ queue' = Tail(queue)
      /\ worker' # worker
      /\ app' = "running")
       => JobParameters(workers'[worker']) = JobParameters(workers[Head(queue).w])]_vars

\* C29: a job that ends in Failed writes no output file: when the result
\* handled last was absent, save_files attempted and wrote nothing, also when
\* the job had obtained its transcript before it failed.
C29_FailedJobWritesNothing ==
  (saved.handler # "" /\ ~saved.present) =>
    /\ saved.attempted = {}
    /\ saved.written = {}

\* The absent result of a job that failed in note generation, after its
\* transcription had succeeded, has been handled.
C29_Witness ==
  /\ saved.handler = "generation_finished"
  /\ ~saved.present
  /\ saved.attempted = {}
  /\ \E w \in Slots :
       /\ workers[w].state = "Failed"
       /\ workers[w].selected_audio_file = saved.job
       /\ workers[w].transcript # ""
       /\ ~Unhandled(w)

============================================================================
